---- MODULE Spec2Model ----
(***************************************************************************)
(* Model of the autonomous interaction engine of mini-Atlas: the agent     *)
(* loop (app/agent_loop.py), the session endpoints that run, stop,        *)
(* continue and delete a session (app/main.py), the safety validator       *)
(* (app/validators.py), and the outcomes of the action executor            *)
(* (app/actions.py) and of the CAPTCHA handler (app/captcha_handler.py).  *)
(*                                                                         *)
(* A Python str is a sequence of one-character strings; None is a value    *)
(* that is no str.                                                         *)
(***************************************************************************)
EXTENDS Integers, Sequences, FiniteSets, TLC

\* ------------------------------------------------------------------ str
None == <<"None">>

LowerChar(c) ==
    CASE c = "A" -> "a" [] c = "B" -> "b" [] c = "C" -> "c" [] c = "D" -> "d"
      [] c = "E" -> "e" [] c = "F" -> "f" [] c = "G" -> "g" [] c = "H" -> "h"
      [] c = "I" -> "i" [] c = "J" -> "j" [] c = "K" -> "k" [] c = "L" -> "l"
      [] c = "M" -> "m" [] c = "N" -> "n" [] c = "O" -> "o" [] c = "P" -> "p"
      [] c = "Q" -> "q" [] c = "R" -> "r" [] c = "S" -> "s" [] c = "T" -> "t"
      [] c = "U" -> "u" [] c = "V" -> "v" [] c = "W" -> "w" [] c = "X" -> "x"
      [] c = "Y" -> "y" [] c = "Z" -> "z" [] OTHER -> c

\* str.lower()
Lower(s) == [i \in 1..Len(s) |-> LowerChar(s[i])]

\* sub in s
Contains(sub, s) ==
    \E i \in 0..(Len(s) - Len(sub)) : \A j \in 1..Len(sub) : s[i + j] = sub[j]

\* bool(s) of an Optional[str]
Truthy(s) == s # None /\ s # <<>>

IsSpace(c) == c \in {" ", "\t", "\n", "\r"}

IsDigit(c) == c \in {"0", "1", "2", "3", "4", "5", "6", "7", "8", "9"}

\* re: a pattern is a sequence of literal characters and "\\s*" elements;
\* MatchAt is a match of p[i..] starting at s[j], under re.IGNORECASE
RECURSIVE MatchAt(_, _, _, _)
MatchAt(p, i, s, j) ==
    IF i > Len(p) THEN TRUE
    ELSE IF p[i] = "\\s*"
         THEN \/ MatchAt(p, i + 1, s, j)
              \/ (j <= Len(s) /\ IsSpace(s[j]) /\ MatchAt(p, i, s, j + 1))
         ELSE j <= Len(s) /\ LowerChar(s[j]) = LowerChar(p[i])
                          /\ MatchAt(p, i + 1, s, j + 1)

\* re.search(p, s, re.IGNORECASE)
ReSearch(p, s) == \E j \in 1..(Len(s) + 1) : MatchAt(p, 1, s, j)

\* "$" of a pattern given to re.match: the end of s, or just before a final newline
AtDollar(s, k) == k = Len(s) \/ (k = Len(s) - 1 /\ s[Len(s)] = "\n")

\* re.match(r'^\d{13,19}$', s)
MatchCreditCard(s) ==
    \E k \in 13..19 : k <= Len(s) /\ AtDollar(s, k) /\ \A i \in 1..k : IsDigit(s[i])

\* re.match(r'^\d{3}-\d{2}-\d{4}$', s)
MatchSSN(s) ==
    /\ Len(s) >= 11
    /\ AtDollar(s, 11)
    /\ \A i \in {1, 2, 3, 5, 6, 8, 9, 10, 11} : IsDigit(s[i])
    /\ s[4] = "-" /\ s[7] = "-"

\* urlparse(url).netloc of an http(s) URL: what follows "//" up to "/", "?" or "#"
NetLoc(url) ==
    LET starts == {i \in 1..(Len(url) - 1) : url[i] = "/" /\ url[i + 1] = "/"}
    IN  IF starts = {} THEN <<>>
        ELSE LET b == (CHOOSE i \in starts : \A k \in starts : i <= k) + 2
                 ends == {j \in b..Len(url) : url[j] \in {"/", "?", "#"}}
                 e == IF ends = {} THEN Len(url) + 1
                      ELSE CHOOSE j \in ends : \A k \in ends : j <= k
             IN  SubSeq(url, b, e - 1)

\* int -> str, as an f-string formats it
RECURSIVE IntToStr(_)
IntToStr(n) ==
    LET d == <<"0", "1", "2", "3", "4", "5", "6", "7", "8", "9">>
    IN  IF n < 10 THEN <<d[n + 1]>> ELSE IntToStr(n \div 10) \o <<d[(n % 10) + 1]>>

\* --------------------------------------------------------------- config
VARIABLES
    block_file_dialogs,  \* config.security.block_file_dialogs
    allow_navigation,    \* config.agent.allow_navigation
    allowed_domains,     \* action_validator.allowed_domains
    blocked_domains      \* action_validator.blocked_domains

\* the defaults: navigation allowed, no allow list, no block list
NavigationDefaults ==
    allow_navigation = TRUE /\ allowed_domains = {} /\ blocked_domains = {}

\* ---------------------------------------------------------- ActionValidator
PAYMENT_PATTERNS ==
    << <<"p","a","y","m","e","n","t">>, <<"c","h","e","c","k","o","u","t">>, <<"p","u","r","c","h","a","s","e">>, <<"b","u","y","\\s*","n","o","w">>,
       <<"p","l","a","c","e","\\s*","o","r","d","e","r">>, <<"c","o","n","f","i","r","m","\\s*","o","r","d","e","r">>, <<"s","u","b","m","i","t","\\s*","p","a","y","m","e","n","t">>, <<"p","a","y","\\s*","n","o","w">> >>

DELETION_PATTERNS ==
    << <<"d","e","l","e","t","e">>, <<"r","e","m","o","v","e">>, <<"d","e","s","t","r","o","y">>, <<"e","r","a","s","e">>, <<"c","l","e","a","r","\\s*","a","l","l">>, <<"p","e","r","m","a","n","e","n","t","l","y">> >>

FILE_PATTERNS ==
    << <<"u","p","l","o","a","d">>, <<"f","i","l","e">>, <<"a","t","t","a","c","h","m","e","n","t">>, <<"b","r","o","w","s","e">>, <<"c","h","o","o","s","e","\\s*","f","i","l","e">> >>

MSG_CrossOrigin == <<"C","r","o","s","s","-","o","r","i","g","i","n"," ","n","a","v","i","g","a","t","i","o","n"," ","n","o","t"," ","a","l","l","o","w","e","d">>
MSG_FileDialog == <<"F","i","l","e"," ","d","i","a","l","o","g"," ","a","c","t","i","o","n","s"," ","a","r","e"," ","b","l","o","c","k","e","d">>
MSG_Payment == <<"P","a","y","m","e","n","t"," ","a","c","t","i","o","n","s"," ","r","e","q","u","i","r","e"," ","m","a","n","u","a","l"," ","c","o","n","f","i","r","m","a","t","i","o","n">>
MSG_Deletion == <<"D","e","l","e","t","i","o","n"," ","a","c","t","i","o","n","s"," ","r","e","q","u","i","r","e"," ","m","a","n","u","a","l"," ","c","o","n","f","i","r","m","a","t","i","o","n">>
MSG_CreditCard == <<"C","r","e","d","i","t"," ","c","a","r","d"," ","i","n","p","u","t"," ","r","e","q","u","i","r","e","s"," ","m","a","n","u","a","l"," ","c","o","n","f","i","r","m","a","t","i","o","n">>
MSG_SSN == <<"S","S","N"," ","i","n","p","u","t"," ","r","e","q","u","i","r","e","s"," ","m","a","n","u","a","l"," ","c","o","n","f","i","r","m","a","t","i","o","n">>
MSG_WaitTimeout == <<"W","a","i","t"," ","t","i","m","e","o","u","t"," ","e","x","c","e","e","d","s"," ","m","a","x","i","m","u","m"," ","a","l","l","o","w","e","d"," ","(","6","0","s",")">>

AnyMatch(patterns, s) == \E k \in 1..Len(patterns) : ReSearch(patterns[k], s)

Allowed == [is_valid |-> TRUE, error |-> None]
Denied(reason) == [is_valid |-> FALSE, error |-> reason]

_validate_navigation(action, current_url) ==
    LET current == NetLoc(current_url)
        target == NetLoc(action.url)
    IN  IF ~allow_navigation /\ current # target THEN Denied(MSG_CrossOrigin)
        ELSE IF allowed_domains # {} /\ target \notin allowed_domains
             THEN Denied(<<"D","o","m","a","i","n"," ">> \o target \o <<" ","n","o","t"," ","i","n"," ","a","l","l","o","w","e","d"," ","l","i","s","t">>)
        ELSE IF target \in blocked_domains
             THEN Denied(<<"D","o","m","a","i","n"," ">> \o target \o <<" ","i","s"," ","b","l","o","c","k","e","d">>)
        ELSE Allowed

\* a click validator whose file-dialog block depends on the confirmation policy
_validate_click_FileNeedsConfirm(action, confirm) ==
    LET selector == Lower(action.selector)
    IN  IF confirm /\ block_file_dialogs /\ AnyMatch(FILE_PATTERNS, selector)
        THEN Denied(MSG_FileDialog)
        ELSE IF confirm /\ AnyMatch(PAYMENT_PATTERNS, selector) THEN Denied(MSG_Payment)
        ELSE IF confirm /\ AnyMatch(DELETION_PATTERNS, selector) THEN Denied(MSG_Deletion)
        ELSE Allowed

\* a click validator that asks for confirmation of payments only
_validate_click_PaymentOnly(action, confirm) ==
    LET selector == Lower(action.selector)
    IN  IF block_file_dialogs /\ AnyMatch(FILE_PATTERNS, selector) THEN Denied(MSG_FileDialog)
        ELSE IF confirm /\ AnyMatch(PAYMENT_PATTERNS, selector) THEN Denied(MSG_Payment)
        ELSE Allowed

_validate_click(action, confirm) ==
    LET selector == Lower(action.selector)
    IN  IF block_file_dialogs /\ AnyMatch(FILE_PATTERNS, selector) THEN Denied(MSG_FileDialog)
        ELSE IF confirm /\ AnyMatch(PAYMENT_PATTERNS, selector) THEN Denied(MSG_Payment)
        ELSE IF confirm /\ AnyMatch(DELETION_PATTERNS, selector) THEN Denied(MSG_Deletion)
        ELSE Allowed

_validate_fill(action, confirm) ==
    IF MatchCreditCard(action.value) /\ confirm THEN Denied(MSG_CreditCard)
    ELSE IF MatchSSN(action.value) /\ confirm THEN Denied(MSG_SSN)
    ELSE Allowed

\* a validator that refuses a wait at the longest timeout already
validate_action_WaitAtLimit(action, current_url, confirm) ==
    CASE action.action = "goto" -> _validate_navigation(action, current_url)
      [] action.action = "click" -> _validate_click(action, confirm)
      [] action.action = "fill" -> _validate_fill(action, confirm)
      [] action.action = "wait_for_selector" ->
            IF action.timeout_ms >= 60000 THEN Denied(MSG_WaitTimeout) ELSE Allowed
      [] OTHER -> Allowed

\* confirm is config.security.confirm_sensitive_actions
validate_action(action, current_url, confirm) ==
    CASE action.action = "goto" -> _validate_navigation(action, current_url)
      [] action.action = "click" -> _validate_click(action, confirm)
      [] action.action = "fill" -> _validate_fill(action, confirm)
      [] action.action = "wait_for_selector" ->
            IF action.timeout_ms > 60000 THEN Denied(MSG_WaitTimeout) ELSE Allowed
      [] OTHER -> Allowed

\* a confirmation query that does not look at the policy
requires_human_confirmation_AnyPolicy(action, confirm) ==
    CASE action.action = "click" ->
            AnyMatch(PAYMENT_PATTERNS \o DELETION_PATTERNS, Lower(action.selector))
      [] action.action = "fill" ->
            MatchCreditCard(action.value) \/ MatchSSN(action.value)
      [] OTHER -> FALSE

requires_human_confirmation(action, confirm) ==
    IF ~confirm THEN FALSE
    ELSE CASE action.action = "click" ->
                AnyMatch(PAYMENT_PATTERNS \o DELETION_PATTERNS, Lower(action.selector))
           [] action.action = "fill" ->
                MatchCreditCard(action.value) \/ MatchSSN(action.value)
           [] OTHER -> FALSE

\* ------------------------------------------------------------- environment
\* what str(e) of an exception of the browser driver or of the oracle provider can be
\* (the message of a timeout exception is empty)
ExcMsgs == { <<>>, <<"T","a","r","g","e","t"," ","c","l","o","s","e","d">> }

StartUrl == <<"h","t","t","p","s",":","/","/","a",".","i","o">>
OtherUrl == <<"h","t","t","p","s",":","/","/","b",".","i","o","/","x">>

\* the actions the oracle returns in this model, one or two of each kind the loop
\* treats differently
OracleActions ==
    { [action |-> "click", selector |-> <<"#","o","k">>],
      [action |-> "click", selector |-> <<"t","e","x","t","=","D","e","l","e","t","e">>],
      [action |-> "click", selector |-> <<"#","u","p","l","o","a","d">>],
      [action |-> "fill", selector |-> <<"#","c","a","r","d">>, value |-> <<"4","1","1","1","1","1","1","1","1","1","1","1","1","1","1","1">>,
       press_enter |-> FALSE],
      [action |-> "goto", url |-> OtherUrl],
      [action |-> "wait_for_selector", selector |-> <<"#","w">>, timeout_ms |-> 10000],
      [action |-> "assert_url_includes", value |-> <<"H","u","m","a","n"," ","I","n","t","e","r","v","e","n","t","i","o","n">>],
      [action |-> "done", summary |-> <<"o","k">>] }

\* the oracle of the runs in which termination is checked
FewOracleActions ==
    { [action |-> "assert_url_includes", value |-> <<"H","u","m","a","n"," ","I","n","t","e","r","v","e","n","t","i","o","n">>],
      [action |-> "done", summary |-> <<"o","k">>] }

NoAction == [action |-> "none"]
NoSurface == [primary |-> "none"]
NoCall == [pc |-> "none"]

\* ---------------------------------------------------------- ActionExecutor
Ok == [success |-> TRUE, error |-> None]
Fail(msg) == [success |-> FALSE, error |-> msg]

\* every (success, error) execute can return for the action; open is whether the
\* browser context still exists, url is page.url
_execute_click(action, open) ==
    (IF open THEN {Ok} ELSE {})
    \cup {Fail(<<"E","l","e","m","e","n","t"," ","n","o","t"," ","f","o","u","n","d"," ","o","r"," ","n","o","t"," ","c","l","i","c","k","a","b","l","e",":"," ">> \o action.selector)}
    \cup {Fail(<<"C","l","i","c","k"," ","f","a","i","l","e","d",":"," ">> \o m) : m \in ExcMsgs}
    \cup {Fail(<<"C","l","i","c","k"," ","f","a","i","l","e","d"," ","(","m","u","l","t","i","p","l","e"," ","e","l","e","m","e","n","t","s",")",":"," ">> \o m) : m \in ExcMsgs}

_execute_fill(action, open) ==
    (IF open THEN {Ok} ELSE {})
    \cup {Fail(<<"E","l","e","m","e","n","t"," ","n","o","t"," ","f","o","u","n","d",":"," ">> \o action.selector)}
    \cup {Fail(<<"F","i","l","l"," ","f","a","i","l","e","d",":"," ">> \o m) : m \in ExcMsgs}

_execute_goto(action, open) ==
    (IF open THEN {Ok} ELSE {})
    \cup {Fail(<<"N","a","v","i","g","a","t","i","o","n"," ","t","i","m","e","o","u","t",":"," ">> \o action.url)}
    \cup {Fail(<<"N","a","v","i","g","a","t","i","o","n"," ","f","a","i","l","e","d",":"," ">> \o m) : m \in ExcMsgs}

_execute_press(action, open) ==
    (IF open THEN {Ok} ELSE {})
    \cup {Fail(<<"K","e","y"," ","p","r","e","s","s"," ","f","a","i","l","e","d",":"," ">> \o m) : m \in ExcMsgs}

_execute_select(action, open) ==
    (IF open THEN {Ok} ELSE {})
    \cup {Fail(<<"S","e","l","e","c","t"," ","e","l","e","m","e","n","t"," ","n","o","t"," ","f","o","u","n","d",":"," ">> \o action.selector)}
    \cup {Fail(<<"S","e","l","e","c","t"," ","f","a","i","l","e","d",":"," ">> \o m) : m \in ExcMsgs}

_execute_wait(action, open) ==
    (IF open THEN {Ok} ELSE {})
    \cup {Fail(<<"E","l","e","m","e","n","t"," ","d","i","d"," ","n","o","t"," ","a","p","p","e","a","r"," ","w","i","t","h","i","n"," ">> \o IntToStr(action.timeout_ms)
               \o <<"m","s",":"," ">> \o action.selector)}
    \cup {Fail(<<"W","a","i","t"," ","f","a","i","l","e","d",":"," ">> \o m) : m \in ExcMsgs}

_execute_assert_url(action, url) ==
    IF Contains(action.value, url) THEN {Ok}
    ELSE {Fail(<<"U","R","L"," ","d","o","e","s"," ","n","o","t"," ","c","o","n","t","a","i","n"," ","'">> \o action.value \o <<"'","."," ","C","u","r","r","e","n","t",":"," ">> \o url)}

execute(action, url, open) ==
    CASE action.action = "click" -> _execute_click(action, open)
      [] action.action = "fill" -> _execute_fill(action, open)
      [] action.action = "goto" -> _execute_goto(action, open)
      [] action.action = "press" -> _execute_press(action, open)
      [] action.action = "select" -> _execute_select(action, open)
      [] action.action = "wait_for_selector" -> _execute_wait(action, open)
      [] action.action = "assert_url_includes" -> _execute_assert_url(action, url)
      [] action.action = "done" -> {Ok}
      [] OTHER -> {Fail(<<"U","n","k","n","o","w","n"," ","a","c","t","i","o","n"," ","t","y","p","e",":"," ">> \o <<action.action>>)}

\* ------------------------------------------------- utils.selectors, healing
\* s.startswith(p)
StartsWith(s, p) == Len(s) >= Len(p) /\ SubSeq(s, 1, Len(p)) = p

\* s.find(sub) + 1: the first place sub occurs in s, 0 if it does not
Find(sub, s) ==
    LET occ == {i \in 1..(Len(s) - Len(sub) + 1) : SubSeq(s, i, i + Len(sub) - 1) = sub}
    IN  IF occ = {} THEN 0 ELSE CHOOSE i \in occ : \A k \in occ : i <= k

\* s.split(sep)[0]
SplitHead(s, sep) == IF Find(sep, s) = 0 THEN s ELSE SubSeq(s, 1, Find(sep, s) - 1)

\* s.split(sep)[1], for a sep that occurs in s
SplitNext(s, sep) == SplitHead(SubSeq(s, Find(sep, s) + Len(sep), Len(s)), sep)

\* s.strip(chars)
Strip(s, chars) ==
    LET keep == {i \in 1..Len(s) : s[i] \notin chars}
    IN  IF keep = {} THEN <<>>
        ELSE SubSeq(s, CHOOSE i \in keep : \A k \in keep : i <= k,
                       CHOOSE i \in keep : \A k \in keep : k <= i)

\* alternatives[:n]
Take(list, n) == SubSeq(list, 1, IF Len(list) < n THEN Len(list) ELSE n)

MSG_ElementNotFound == <<"E","l","e","m","e","n","t"," ","n","o","t"," ","f","o","u","n","d">>

heal_selector(original_selector, error_message) ==
    LET specific ==
            IF \E c \in {"[", "#", "."} : StartsWith(original_selector, <<c>>)
            THEN IF Contains(<<"t","e","x","t","=">>, error_message)
                 THEN << <<"t","e","x","t","=">> \o Strip(SplitHead(SplitNext(error_message, <<"t","e","x","t","=">>),
                                                     <<" ">>), {"\""}) >>
                 ELSE <<>>
            ELSE IF StartsWith(original_selector, <<"t","e","x","t","=">>)
            THEN LET text == Strip(SubSeq(original_selector, 6, Len(original_selector)),
                                   {"\""})
                 IN  << <<"t","e","x","t","=","/">> \o text \o <<"/","i">>,
                        <<":","h","a","s","-","t","e","x","t","(","\"">> \o text \o <<"\"",")">>,
                        <<"r","o","l","e","=","b","u","t","t","o","n","[","n","a","m","e","=","\"">> \o text \o <<"\"","]">>,
                        <<"r","o","l","e","=","l","i","n","k","[","n","a","m","e","=","\"">> \o text \o <<"\"","]">>,
                        <<"[","a","r","i","a","-","l","a","b","e","l","=","\"">> \o text \o <<"\"","]">> >>
            ELSE <<>>
    IN  specific \o << original_selector \o <<":","v","i","s","i","b","l","e">>,
                       original_selector \o <<" ",">",">"," ","n","t","h","=","0">> >>

_get_fill_alternatives(selector, value) ==
    LET name_match == Strip(SplitHead(SplitNext(selector, <<"n","a","m","e","=">>), <<"]">>), {"'", "\""})
        by_name ==
            IF Contains(<<"n","a","m","e","=">>, selector)
            THEN << <<"i","n","p","u","t","[","n","a","m","e","=","'">> \o name_match \o <<"'","]">>,
                    <<"i","n","p","u","t","[","n","a","m","e","=","\"">> \o name_match \o <<"\"","]">>,
                    <<"i","n","p","u","t","[","p","l","a","c","e","h","o","l","d","e","r","*","=","'">> \o name_match \o <<"'","]">>,
                    <<"i","n","p","u","t","[","a","r","i","a","-","l","a","b","e","l","*","=","'">> \o name_match \o <<"'","]">>,
                    <<"i","n","p","u","t","[","i","d","*","=","'">> \o name_match \o <<"'","]">> >>
            ELSE <<>>
        email ==
            IF \/ Contains(<<"@">>, value)
               \/ Contains(<<"e","m","a","i","l">>, Lower(selector))
               \/ Contains(<<"e","-","p","o","s","t","a">>, Lower(selector))
            THEN << <<"i","n","p","u","t","[","t","y","p","e","=","'","e","m","a","i","l","'","]">>,
                    <<"i","n","p","u","t","[","t","y","p","e","=","'","t","e","x","t","'","]","[","p","l","a","c","e","h","o","l","d","e","r","*","=","'","e","m","a","i","l","'"," ","i","]">>,
                    <<"i","n","p","u","t","[","t","y","p","e","=","'","t","e","x","t","'","]","[","p","l","a","c","e","h","o","l","d","e","r","*","=","'","e","-","p","o","s","t","a","'"," ","i","]">>,
                    <<"i","n","p","u","t","[","t","y","p","e","=","'","t","e","x","t","'","]","[","p","l","a","c","e","h","o","l","d","e","r","*","=","'","m","a","i","l","'"," ","i","]">>,
                    <<"i","n","p","u","t","[","a","r","i","a","-","l","a","b","e","l","*","=","'","e","m","a","i","l","'"," ","i","]">>,
                    <<"i","n","p","u","t","[","a","r","i","a","-","l","a","b","e","l","*","=","'","e","-","p","o","s","t","a","'"," ","i","]">>,
                    <<"i","n","p","u","t","[","i","d","*","=","'","e","m","a","i","l","'","]">>,
                    <<"i","n","p","u","t","[","i","d","*","=","'","m","a","i","l","'","]">>,
                    <<"i","n","p","u","t","[","n","a","m","e","*","=","'","e","m","a","i","l","'","]">>,
                    <<"i","n","p","u","t","[","n","a","m","e","*","=","'","m","a","i","l","'","]">> >>
            ELSE <<>>
        password ==
            IF \/ Contains(<<"p","a","s","s","w","o","r","d">>, Lower(selector))
               \/ Contains(<<"U+015F","i","f","r","e">>, Lower(selector))
            THEN << <<"i","n","p","u","t","[","t","y","p","e","=","'","p","a","s","s","w","o","r","d","'","]">>,
                    <<"i","n","p","u","t","[","p","l","a","c","e","h","o","l","d","e","r","*","=","'","p","a","s","s","w","o","r","d","'"," ","i","]">>,
                    <<"i","n","p","u","t","[","p","l","a","c","e","h","o","l","d","e","r","*","=","'","U+015F","i","f","r","e","'"," ","i","]">>,
                    <<"i","n","p","u","t","[","a","r","i","a","-","l","a","b","e","l","*","=","'","p","a","s","s","w","o","r","d","'"," ","i","]">>,
                    <<"i","n","p","u","t","[","a","r","i","a","-","l","a","b","e","l","*","=","'","U+015F","i","f","r","e","'"," ","i","]">>,
                    <<"i","n","p","u","t","[","i","d","*","=","'","p","a","s","s","w","o","r","d","'","]">>,
                    <<"i","n","p","u","t","[","i","d","*","=","'","p","a","s","s","'","]">>,
                    <<"i","n","p","u","t","[","n","a","m","e","*","=","'","p","a","s","s","w","o","r","d","'","]">>,
                    <<"i","n","p","u","t","[","n","a","m","e","*","=","'","p","a","s","s","'","]">> >>
            ELSE <<>>
    IN  by_name \o email \o password
            \o << <<"i","n","p","u","t","[","t","y","p","e","=","'","t","e","x","t","'","]",":","v","i","s","i","b","l","e">>, <<"i","n","p","u","t",":","v","i","s","i","b","l","e">> >>
            \o heal_selector(selector, MSG_ElementNotFound)

\* ----------------------------------------------------------- CaptchaHandler
CaptchaTypes == {"recaptcha", "hcaptcha", "cloudflare", "generic"}

Solved == [success |-> TRUE, error |-> None]
Unsolved(msg) == [success |-> FALSE, error |-> msg]

_handle_recaptcha ==
    {Solved,
     Unsolved(<<"r","e","C","A","P","T","C","H","A"," ","i","m","a","g","e"," ","c","h","a","l","l","e","n","g","e"," ","r","e","q","u","i","r","e","s"," ","h","u","m","a","n"," ","i","n","t","e","r","v","e","n","t","i","o","n">>),
     Unsolved(<<"C","o","u","l","d"," ","n","o","t"," ","f","i","n","d"," ","r","e","C","A","P","T","C","H","A"," ","c","h","e","c","k","b","o","x">>)}
    \cup {Unsolved(m) : m \in ExcMsgs}

_handle_hcaptcha ==
    {Solved,
     Unsolved(<<"h","C","a","p","t","c","h","a"," ","i","m","a","g","e"," ","c","h","a","l","l","e","n","g","e"," ","r","e","q","u","i","r","e","s"," ","h","u","m","a","n"," ","i","n","t","e","r","v","e","n","t","i","o","n">>),
     Unsolved(<<"C","o","u","l","d"," ","n","o","t"," ","f","i","n","d"," ","h","C","a","p","t","c","h","a"," ","c","h","e","c","k","b","o","x">>)}
    \cup {Unsolved(m) : m \in ExcMsgs}

_handle_cloudflare ==
    {Solved, Unsolved(<<"C","l","o","u","d","f","l","a","r","e"," ","c","h","a","l","l","e","n","g","e"," ","t","i","m","e","o","u","t">>)}
    \cup {Unsolved(m) : m \in ExcMsgs}

_handle_generic_captcha ==
    {Solved,
     Unsolved(<<"C","o","m","p","l","e","x"," ","C","A","P","T","C","H","A"," ","r","e","q","u","i","r","e","s"," ","h","u","m","a","n"," ","i","n","t","e","r","v","e","n","t","i","o","n">>),
     Unsolved(<<"G","e","n","e","r","i","c"," ","C","A","P","T","C","H","A"," ","r","e","q","u","i","r","e","s"," ","h","u","m","a","n"," ","i","n","t","e","r","v","e","n","t","i","o","n">>)}
    \cup {Unsolved(m) : m \in ExcMsgs}

\* every (success, error) handle can return when its own detection finds captcha_type
\* ("none": the challenge is gone)
handle(captcha_type) ==
    CASE captcha_type = "none" -> {Solved}
      [] captcha_type = "recaptcha" -> _handle_recaptcha
      [] captcha_type = "hcaptcha" -> _handle_hcaptcha
      [] captcha_type = "cloudflare" -> _handle_cloudflare
      [] captcha_type = "generic" -> _handle_generic_captcha
      [] OTHER -> {Unsolved(<<"U","n","k","n","o","w","n"," ","C","A","P","T","C","H","A"," ","t","y","p","e",":"," ">> \o <<captcha_type>>)}


\* ---------------------------------------------------------------- bounds
\* largest max_steps a run request asks for (RunRequest.max_steps is 1..100)
MaxSteps == 2
\* config.agent.max_steps, the budget of AgentLoop when a task does not override it
ConfigMaxSteps == 3

\* ----------------------------------------------------------------- state
VARIABLES
    status,        \* session.status
    steps,         \* session.steps
    stored,        \* session_id in sessions
    lock_stored,   \* session_id in session_locks
    tasks,         \* background tasks added and not yet holding the session's lock
    task,          \* locals of the background task that holds the lock
    pc,            \* where that task is suspended; "idle": no task holds the lock
    max_steps,     \* agent_loop.max_steps
    expired,       \* time.time() - start_time >= total_timeout in the current run
    timed_out,     \* the deadline of wait_for has fired for the step in flight
    ctx,           \* session_id in playwright_runner._contexts
    closing,       \* the request that has set STOPPED and is suspended in close_context
    url,           \* page.url
    cur,           \* the action the executor is executing
    executed,      \* calls of action_executor.execute: (step number, action, page.url)
    vision_enabled,             \* config.agent.vision_enabled
    confirm_sensitive_actions,  \* config.security.confirm_sensitive_actions
    oracle,        \* the actions llm_client.generate_action returns
    captchas,      \* the challenge types the pages show
    request_max_steps,  \* RunRequest.max_steps of the POST /run that started the session
    sess,          \* concurrent sessions: each one's budget, position, steps_count, status
    proposed,      \* the action given to action_validator.validate_action
    page_url,      \* the page.url given with it
    validated,     \* what validate_action has returned for it, once it has
    surface,       \* how the page answers the browser calls made of it
    ex,            \* a call of action_executor.execute: its action, position and result
    events,        \* network_monitor.events
    _request_start_times,  \* network_monitor._request_start_times
    clock,         \* time.time(), in seconds
    traffic,       \* the requests of the browser context: how far on_request has come
                   \* with each, how it ended, and where on_request was when it ended
    cap,           \* a call of the captcha detector or handler: its position and result
    gen            \* a call of llm_client.generate_action: the provider's responses,
                   \* the attempts made and the result

vars == <<status, steps, stored, lock_stored, tasks, task, pc, max_steps, expired,
          timed_out, ctx, closing, url, cur, executed, vision_enabled,
          confirm_sensitive_actions, oracle, captchas, sess, block_file_dialogs,
          allow_navigation, allowed_domains, blocked_domains, proposed,
          page_url, validated, surface, ex, events, _request_start_times, clock,
          traffic, cap, gen, request_max_steps>>

\* what no action changes: the configuration and the environment
config == <<vision_enabled, confirm_sensitive_actions, block_file_dialogs, allow_navigation,
            allowed_domains, blocked_domains, oracle, captchas,
            request_max_steps>>

\* the validator's caller outside a session
validation == <<proposed, page_url, validated>>

\* the executor's caller outside a session
execution == <<surface, ex>>

\* the network monitor and the traffic it hears of
network == <<events, _request_start_times, clock, traffic>>

\* the captcha module's and the oracle client's callers outside a session
calls == <<cap, gen>>

\* what the requests and the task of the one session leave alone
fixed == <<config, sess, validation, execution, network, calls>>

\* SessionStatus
RUNNING == "running"
COMPLETED == "completed"
FAILED == "failed"
STOPPED == "stopped"
WAITING_HUMAN == "waiting_human"

\* AgentSession.is_active
is_active(st) == st \in {RUNNING, WAITING_HUMAN}

\* "human intervention" in step.error.lower()
HUMAN_INTERVENTION == <<"h","u","m","a","n"," ","i","n","t","e","r","v","e","n","t","i","o","n">>
IsHumanIntervention(error) == Contains(HUMAN_INTERVENTION, Lower(error))

MSG_CaptchaDefault == <<"C","A","P","T","C","H","A"," ","r","e","q","u","i","r","e","s"," ","h","u","m","a","n"," ","i","n","t","e","r","v","e","n","t","i","o","n">>
MSG_LLMNoAction == <<"L","L","M"," ","f","a","i","l","e","d"," ","t","o"," ","g","e","n","e","r","a","t","e"," ","v","a","l","i","d"," ","a","c","t","i","o","n"," ","J","S","O","N">>
MSG_NeedsConfirmation == <<"S","e","n","s","i","t","i","v","e"," ","a","c","t","i","o","n"," ","r","e","q","u","i","r","e","s"," ","h","u","m","a","n"," ","c","o","n","f","i","r","m","a","t","i","o","n">>

\* the step's reasoning text (the interpolated part left out)
R_Captcha == "CAPTCHA detected that requires human intervention"
R_LLMError == "Failed to generate action from LLM provider"
R_NoAction == "Failed to generate valid action"
R_Blocked == "Action blocked by security policy"
R_Confirm == "Action requires human confirmation"
R_Executing == "Executing action to progress towards goals"

AgentStep(n, u, reasoning, action, error) ==
    [step_number |-> n, url |-> u, reasoning |-> reasoning, action |-> action,
     error |-> error]

\* a step numbered by the count of the steps before it
step_num_FromZero(steps_count) == steps_count

\* step_num = session.steps_count + 1
step_num(steps_count) == steps_count + 1

InStep == {"observe", "detect", "handle", "reason", "act"}
InRun == InStep \cup {"goto"}

NoTask == [max_steps |-> 0, original_max |-> 0, has_captcha |-> FALSE]

\* POST /run has stored a RUNNING session and its lock and has added the background
\* task, with a max_steps of budgets
Start(budgets) ==
    /\ status = RUNNING
    /\ steps = <<>>
    /\ stored = TRUE
    /\ lock_stored = TRUE
    /\ \E m \in budgets :
          /\ request_max_steps = m
          /\ tasks = <<[max_steps |-> m, waiting |-> FALSE]>>
    /\ task = NoTask
    /\ pc = "idle"
    /\ max_steps = ConfigMaxSteps
    /\ expired = FALSE
    /\ timed_out = FALSE
    /\ ctx = FALSE
    /\ closing = "no"
    /\ url = <<>>
    /\ cur = NoAction
    /\ executed = {}

\* no action waits for the validator outside the session
NoValidation == proposed = NoAction /\ page_url = <<>> /\ validated = <<>>

\* no call of the executor outside the session
NoExecution == surface = NoSurface /\ ex = NoCall

\* a monitor that has heard of no request
NoTraffic == events = <<>> /\ _request_start_times = <<>> /\ clock = 0 /\ traffic = <<>>

\* no call of the captcha module or of the oracle client outside the session
NoCalls == cap = NoCall /\ gen = NoCall

Init ==
    /\ Start(1..MaxSteps)
    /\ vision_enabled \in BOOLEAN
    /\ confirm_sensitive_actions \in BOOLEAN
    /\ block_file_dialogs = TRUE
    /\ NavigationDefaults
    /\ oracle = OracleActions
    /\ captchas = CaptchaTypes
    /\ sess = <<>>
    /\ NoValidation
    /\ NoExecution
    /\ NoTraffic
    /\ NoCalls

\* the default configuration, a request for the largest budget, an oracle that fails
\* an assertion or is done, and pages that show a reCAPTCHA
InitFair ==
    /\ Start({MaxSteps})
    /\ vision_enabled = TRUE
    /\ confirm_sensitive_actions = TRUE
    /\ block_file_dialogs = TRUE
    /\ NavigationDefaults
    /\ oracle = FewOracleActions
    /\ captchas = {"recaptcha"}
    /\ sess = <<>>
    /\ NoValidation
    /\ NoExecution
    /\ NoTraffic
    /\ NoCalls

\* --------------------------------------------------------- run_agent_task
\* a background task that begins without waiting for the session's lock
TaskBegin_NoLock ==
    /\ tasks # <<>>
    /\ ~tasks[1].waiting
    /\ tasks' = Tail(tasks)
    /\ IF ~stored \/ ~lock_stored
       THEN UNCHANGED <<task, pc>>
       ELSE /\ task' = [NoTask EXCEPT !.max_steps = tasks[1].max_steps]
            /\ pc' = "create_context"
    /\ UNCHANGED <<status, steps, stored, lock_stored, max_steps, expired, timed_out,
                   ctx, url, cur, executed, fixed, closing>>

\* a background task begins: looks the session and its lock up and takes the lock
\* if it is free, else waits for it
TaskBegin ==
    /\ tasks # <<>>
    /\ ~tasks[1].waiting
    /\ IF ~stored \/ ~lock_stored
       THEN /\ tasks' = Tail(tasks)
            /\ UNCHANGED <<task, pc>>
       ELSE IF pc = "idle"
       THEN /\ tasks' = Tail(tasks)
            /\ task' = [NoTask EXCEPT !.max_steps = tasks[1].max_steps]
            /\ pc' = "create_context"
       ELSE /\ tasks' = <<[tasks[1] EXCEPT !.waiting = TRUE]>> \o Tail(tasks)
            /\ UNCHANGED <<task, pc>>
    /\ UNCHANGED <<status, steps, stored, lock_stored, max_steps, expired, timed_out,
                   ctx, url, cur, executed, fixed, closing>>

\* the released lock goes to the task that waits for it
TaskAcquire ==
    /\ pc = "idle"
    /\ tasks # <<>>
    /\ tasks[1].waiting
    /\ tasks' = Tail(tasks)
    /\ task' = [NoTask EXCEPT !.max_steps = tasks[1].max_steps]
    /\ pc' = "create_context"
    /\ UNCHANGED <<status, steps, stored, lock_stored, max_steps, expired, timed_out,
                   ctx, url, cur, executed, fixed, closing>>

\* except Exception of run_agent_task
TaskFailed ==
    /\ status' = FAILED
    /\ stored' = TRUE
    /\ pc' = "finally"

CreateContext ==
    /\ pc = "create_context"
    /\ \/ /\ ctx' = TRUE
          /\ pc' = "get_page"
          /\ UNCHANGED <<status, stored>>
       \/ /\ TaskFailed
          /\ UNCHANGED ctx
    /\ UNCHANGED <<steps, lock_stored, tasks, task, max_steps, expired, timed_out,
                   url, cur, executed, fixed, closing>>

\* get_page, the override of agent_loop.max_steps, and the start of agent_loop.run
GetPage ==
    /\ pc = "get_page"
    /\ \/ /\ ctx
          /\ task' = [task EXCEPT !.original_max =
                         IF task.max_steps # 0 THEN max_steps ELSE 0]
          /\ max_steps' = IF task.max_steps # 0 THEN task.max_steps ELSE max_steps
          /\ expired' = FALSE
          /\ timed_out' = FALSE
          /\ pc' = "goto"
          /\ UNCHANGED <<status, stored>>
       \/ /\ TaskFailed
          /\ UNCHANGED <<task, max_steps, expired, timed_out>>
    /\ UNCHANGED <<steps, lock_stored, tasks, ctx, url, cur, executed, fixed, closing>>

\* run returns the session: run_agent_task stores it and restores agent_loop.max_steps
Return(st) ==
    /\ status' = st
    /\ stored' = TRUE
    /\ max_steps' = IF task.max_steps # 0 THEN task.original_max ELSE max_steps
    /\ pc' = "finally"

\* run returns the status the loop left, without the check of the termination reason
AfterLoop_NoCheck(st, n) == st

\* the check of the termination reason after the loop, with status st and n steps
AfterLoop(st, n) ==
    IF is_active(st) /\ (n >= max_steps \/ expired) THEN FAILED ELSE st

\* the loop condition without session.is_active
Iterate_IgnoreStatus(st, n) ==
    IF n < max_steps /\ ~expired
    THEN /\ status' = st
         /\ pc' = "observe"
         /\ UNCHANGED <<stored, max_steps>>
    ELSE Return(AfterLoop(st, n))

\* the loop condition that lets one step more than the budget begin
Iterate_OffByOne(st, n) ==
    IF is_active(st) /\ n <= max_steps /\ ~expired
    THEN /\ status' = st
         /\ pc' = "observe"
         /\ UNCHANGED <<stored, max_steps>>
    ELSE Return(AfterLoop(st, n))

\* the loop condition, with status st and n steps: the next step starts, or run returns
Iterate(st, n) ==
    IF is_active(st) /\ n < max_steps /\ ~expired
    THEN /\ status' = st
         /\ pc' = "observe"
         /\ UNCHANGED <<stored, max_steps>>
    ELSE Return(AfterLoop(st, n))

NoStatus == "none"

\* the status run sets for the step it appended, NoStatus when it sets none
StepStatus(step) ==
    IF step.action.action = "done" THEN COMPLETED
    ELSE IF Truthy(step.error)
         THEN IF IsHumanIntervention(step.error) THEN WAITING_HUMAN ELSE FAILED
         ELSE NoStatus

\* wait_for returned the step: run appends it and decides how to go on
Record(step) ==
    /\ steps' = Append(steps, step)
    /\ IF StepStatus(step) # NoStatus
       THEN Return(AfterLoop(StepStatus(step), Len(steps) + 1))
       ELSE Iterate(status, Len(steps) + 1)
    /\ timed_out' = FALSE
    /\ cur' = NoAction
    /\ task' = [task EXCEPT !.has_captcha = FALSE]

\* page.goto(session.url) and the first evaluation of the loop condition
Goto ==
    /\ pc = "goto"
    /\ \/ /\ ctx
          /\ url' = StartUrl
          /\ Iterate(status, Len(steps))
       \/ /\ Return(FAILED)
          /\ UNCHANGED url
    /\ UNCHANGED <<steps, lock_stored, tasks, task, expired, timed_out, ctx, cur,
                   executed, fixed, closing>>

\* finally: close_context, and the lock is released
TaskFinally ==
    /\ pc = "finally"
    /\ ctx' = FALSE
    /\ pc' = "idle"
    /\ task' = NoTask
    /\ UNCHANGED <<status, steps, stored, lock_stored, tasks, max_steps, expired,
                   timed_out, url, cur, executed, fixed, closing>>

\* ------------------------------------------------------ AgentLoop._run_step
\* _observe
Observe ==
    /\ pc = "observe"
    /\ pc' = "detect"
    /\ UNCHANGED <<status, steps, stored, lock_stored, tasks, task, max_steps, expired,
                   timed_out, ctx, url, cur, executed, fixed, closing>>

\* what detect can report: every probe of a closed page raises and is swallowed
DetectResults(open) == IF open THEN {"none"} \cup captchas ELSE {"none"}

\* captcha_handler.detector.detect, and the choice of handling the challenge
Detect ==
    /\ pc = "detect"
    /\ \E t \in DetectResults(ctx) :
          /\ task' = [task EXCEPT !.has_captcha = (t # "none")]
          /\ pc' = IF t # "none" /\ vision_enabled THEN "handle" ELSE "reason"
    /\ UNCHANGED <<status, steps, stored, lock_stored, tasks, max_steps, expired,
                   timed_out, ctx, url, cur, executed, fixed, closing>>

\* error or "CAPTCHA requires human intervention"
OrDefault(error) == IF Truthy(error) THEN error ELSE MSG_CaptchaDefault

\* captcha_handler.handle: solved, the step goes on; else the step ends
HandleCaptcha ==
    /\ pc = "handle"
    /\ \E t \in DetectResults(ctx) : \E r \in handle(t) :
          IF r.success
          THEN /\ pc' = "reason"
               /\ UNCHANGED <<status, steps, stored, max_steps, timed_out, cur, task>>
          ELSE Record(AgentStep(step_num(Len(steps)), url, R_Captcha, NoAction,
                                OrDefault(r.error)))
    /\ UNCHANGED <<lock_stored, tasks, expired, ctx, url, executed, fixed, closing>>

\* the validator's verdict is not consulted before the executor is called
Decide_Unvalidated(action, current_url, confirm) ==
    IF requires_human_confirmation(action, confirm) THEN "confirm" ELSE "execute"

\* what _run_step does with the action the oracle returned
Decide(action, current_url, confirm) ==
    IF ~validate_action(action, current_url, confirm).is_valid THEN "blocked"
    ELSE IF requires_human_confirmation(action, confirm) THEN "confirm"
    ELSE "execute"

\* llm_client.generate_action, then the validation of its action
Reason ==
    /\ pc = "reason"
    /\ \/ \E m \in ExcMsgs :
             /\ Record(AgentStep(step_num(Len(steps)), url, R_LLMError, NoAction, m))
             /\ UNCHANGED executed
       \/ /\ Record(AgentStep(step_num(Len(steps)), url, R_NoAction, NoAction,
                              MSG_LLMNoAction))
          /\ UNCHANGED executed
       \/ \E action \in oracle :
             LET d == Decide(action, url, confirm_sensitive_actions)
             IN  CASE d = "blocked" ->
                        /\ Record(AgentStep(step_num(Len(steps)), url, R_Blocked, action,
                               validate_action(action, url, confirm_sensitive_actions).error))
                        /\ UNCHANGED executed
                   [] d = "confirm" ->
                        /\ Record(AgentStep(step_num(Len(steps)), url, R_Confirm, action,
                                            MSG_NeedsConfirmation))
                        /\ UNCHANGED executed
                   [] OTHER ->
                        /\ pc' = "act"
                        /\ cur' = action
                        /\ executed' = executed \cup
                               {[step_number |-> step_num(Len(steps)), action |-> action,
                                 url |-> url]}
                        /\ UNCHANGED <<status, steps, stored, max_steps, timed_out, task>>
    /\ UNCHANGED <<lock_stored, tasks, expired, ctx, url, fixed, closing>>

\* action_executor.execute returns, and the step is built from its result
Act ==
    /\ pc = "act"
    /\ \E r \in execute(cur, url, ctx) :
          /\ Record(AgentStep(step_num(Len(steps)), url, R_Executing, cur, r.error))
          /\ url' = IF r.success /\ cur.action = "goto" THEN cur.url ELSE url
    /\ UNCHANGED <<lock_stored, tasks, expired, ctx, executed, fixed, closing>>

\* where a cancellation is raised inside a try with a bare except, which swallows it
Swallows(at, action) ==
    \/ at \in {"detect", "handle"}
    \/ at = "act" /\ action.action \in {"click", "select"}

\* where a cancellation is raised outside such a try, and ends _run_step
Propagates(at) == at \in {"observe", "handle", "reason", "act"}

\* the deadline of wait_for fires: the step is cancelled at the await it is suspended in
StepTimeout ==
    /\ pc \in InStep
    /\ ~timed_out
    /\ \/ /\ Swallows(pc, cur)
          /\ timed_out' = TRUE
          /\ UNCHANGED <<status, stored, max_steps, pc, cur>>
       \/ /\ Propagates(pc)
          /\ Return(AfterLoop(FAILED, Len(steps)))
          /\ cur' = NoAction
          /\ timed_out' = TRUE
    /\ UNCHANGED <<steps, lock_stored, tasks, task, expired, ctx, url, executed, fixed, closing>>

\* the wall clock passes total_timeout
Expire ==
    /\ pc \in InRun
    /\ ~expired
    /\ expired' = TRUE
    /\ UNCHANGED <<status, steps, stored, lock_stored, tasks, task, pc, max_steps,
                   timed_out, ctx, url, cur, executed, fixed, closing>>

\* ------------------------------------------------------------- endpoints
\* POST /stop/{session_id}: the status is set, then the request is suspended in
\* close_context (one request at a time is in close_context)
stop_agent ==
    /\ stored
    /\ closing = "no"
    /\ status' = STOPPED
    /\ closing' = "stop"
    /\ UNCHANGED <<steps, stored, lock_stored, tasks, task, pc, max_steps, expired,
                   timed_out, ctx, url, cur, executed, fixed>>

\* POST /agent/continue/{session_id}
continue_agent ==
    /\ stored
    /\ status = WAITING_HUMAN
    /\ status' = RUNNING
    /\ tasks' = Append(tasks, [max_steps |-> 0, waiting |-> FALSE])
    /\ UNCHANGED <<steps, stored, lock_stored, task, pc, max_steps, expired, timed_out,
                   ctx, closing, url, cur, executed, fixed>>

\* DELETE /sessions/{session_id}: an active session is stopped first, and the pops
\* follow when stop_agent has returned
delete_session ==
    /\ stored
    /\ closing = "no"
    /\ IF is_active(status)
       THEN /\ status' = STOPPED
            /\ closing' = "delete"
            /\ UNCHANGED <<stored, lock_stored>>
       ELSE /\ stored' = FALSE
            /\ lock_stored' = FALSE
            /\ UNCHANGED <<status, closing>>
    /\ UNCHANGED <<steps, tasks, task, pc, max_steps, expired, timed_out, ctx, url, cur,
                   executed, fixed>>

\* close_context of the stop request returns: the context is popped and closed
close_context ==
    /\ closing # "no"
    /\ ctx' = FALSE
    /\ closing' = "no"
    /\ stored' = IF closing = "delete" THEN FALSE ELSE stored
    /\ lock_stored' = IF closing = "delete" THEN FALSE ELSE lock_stored
    /\ UNCHANGED <<status, steps, tasks, task, pc, max_steps, expired, timed_out, url,
                   cur, executed, fixed>>

Next ==
    \/ TaskBegin
    \/ TaskAcquire
    \/ CreateContext
    \/ GetPage
    \/ Goto
    \/ Observe
    \/ Detect
    \/ HandleCaptcha
    \/ Reason
    \/ Act
    \/ StepTimeout
    \/ Expire
    \/ TaskFinally
    \/ stop_agent
    \/ close_context
    \/ continue_agent
    \/ delete_session

Spec == Init /\ [][Next]_vars

\* what the event loop runs without waiting for a request or a clock: the steps of the
\* background task (every await of it returns) and the close_context of a stop request
TaskStep ==
    \/ TaskBegin
    \/ TaskAcquire
    \/ CreateContext
    \/ GetPage
    \/ Goto
    \/ Observe
    \/ Detect
    \/ HandleCaptcha
    \/ Reason
    \/ Act
    \/ TaskFinally

\* the same program where the event loop keeps running whatever is ready
FairSpec == InitFair /\ [][Next]_vars /\ WF_vars(TaskStep) /\ WF_vars(close_context)

\* ------------------------------------------ sessions that run concurrently
\* how many sessions run at the same time
MaxSessions == 2

Sessions == 1..MaxSessions

\* the variables of the one session of Spec
one == <<status, steps, stored, lock_stored, tasks, task, pc, expired, timed_out, ctx,
         closing, url, cur, executed>>

\* a session POST /run has stored, whose task has not yet reached the override
NewSession(requested) ==
    [requested |-> requested, original_max |-> 0, at |-> "idle", steps_count |-> 0,
     status |-> RUNNING]

\* POST /run has been called for every session, each with its max_steps
InitBudget ==
    /\ Start({MaxSteps})
    /\ vision_enabled = TRUE
    /\ confirm_sensitive_actions = TRUE
    /\ oracle = FewOracleActions
    /\ captchas = {}
    /\ block_file_dialogs = TRUE
    /\ NavigationDefaults
    /\ sess \in [Sessions -> {NewSession(r) : r \in 1..MaxSteps}]
    /\ NoValidation
    /\ NoExecution
    /\ NoTraffic
    /\ NoCalls

\* run_agent_task overrides agent_loop.max_steps and enters run, up to its page.goto
OverrideMaxSteps(s) ==
    /\ sess[s].at = "idle"
    /\ sess' = [sess EXCEPT ![s].original_max = max_steps, ![s].at = "goto"]
    /\ max_steps' = sess[s].requested
    /\ UNCHANGED <<one, config, validation, execution, network, calls>>

\* run returns with status st and n steps, and run_agent_task restores
\* agent_loop.max_steps
RunReturns(s, st, n) ==
    /\ sess' = [sess EXCEPT ![s].status = AfterLoop(st, n), ![s].steps_count = n,
                            ![s].at = "done"]
    /\ max_steps' = sess[s].original_max

\* the loop condition of the session's run: the next step starts, or run returns
RunIterates(s, st, n) ==
    IF is_active(st) /\ n < max_steps /\ ~expired
    THEN /\ sess' = [sess EXCEPT ![s].status = st, ![s].steps_count = n, ![s].at = "step"]
         /\ UNCHANGED max_steps
    ELSE RunReturns(s, st, n)

\* page.goto of the session's run returns
RunStarts(s) ==
    /\ sess[s].at = "goto"
    /\ RunIterates(s, sess[s].status, sess[s].steps_count)
    /\ UNCHANGED <<one, config, validation, execution, network, calls>>

\* the step in flight of the session's run returns without error and is appended
RunStep(s) ==
    /\ sess[s].at = "step"
    /\ \/ RunReturns(s, COMPLETED, sess[s].steps_count + 1)
       \/ RunIterates(s, sess[s].status, sess[s].steps_count + 1)
    /\ UNCHANGED <<one, config, validation, execution, network, calls>>

NextBudget ==
    \/ \E s \in Sessions : OverrideMaxSteps(s)
    \/ \E s \in Sessions : RunStarts(s)
    \/ \E s \in Sessions : RunStep(s)

BudgetSpec == InitBudget /\ [][NextBudget]_vars

\* ---------------------------------------- validate_action as a pure function
\* values of a fill the oracle can propose
FillValues ==
    { <<"4","1","1","1","1","1","1","1","1","1","1","1","1","1","1","1">>, <<"4","1","1","1","1","1","1","1","1","1","1","1","1","1","1","1","\n">>, <<"x","4","1","1","1","1","1","1","1","1","1","1","1","1","1","1","1">>,
      <<"4","1","1","1"," ","1","1","1","1"," ","1","1","1","1"," ","1","1","1","1">>, <<"4","1","1","1","1","1","1","1","1","1","1","1">>, <<"4","1","1","1","1","1","1","1","1","1","1","1","1">>,
      <<"4","1","1","1","1","1","1","1","1","1","1","1","1","1","1","1","1","1","1">>, <<"4","1","1","1","1","1","1","1","1","1","1","1","1","1","1","1","1","1","1","1">>,
      <<"1","2","3","-","4","5","-","6","7","8","9">>, <<"1","2","3","-","4","5","-","6","7","8","9","\n">>, <<"1","2","3","4","5","6","7","8","9">>, <<"1","2","3","-","4","5","-","6","7","8","9","0">>,
      <<"1","2","-","3","4","5","-","6","7","8","9">>, <<"u","s","e","r","@","e","x","a","m","p","l","e",".","c","o","m">>, <<>> }

\* selectors of a click the oracle can propose
ClickSelectors ==
    { <<"#","d","e","l","e","t","e","-","a","c","c","o","u","n","t">>, <<"t","e","x","t","=","D","E","L","E","T","E">>, <<"t","e","x","t","=","R","e","m","o","v","e"," ","i","t","e","m">>, <<"b","u","t","t","o","n",".","d","e","s","t","r","o","y">>,
      <<"E","r","a","s","e">>, <<"C","l","e","a","r"," ","A","l","l">>, <<"#","c","l","e","a","r","a","l","l">>, <<"P","e","r","m","a","n","e","n","t","l","y">>,
      <<"#","p","a","y","m","e","n","t">>, <<"#","c","h","e","c","k","o","u","t">>, <<"t","e","x","t","=","P","u","r","c","h","a","s","e">>, <<"t","e","x","t","=","B","u","y"," ","N","o","w">>, <<"#","B","U","Y","N","O","W">>,
      <<"P","l","a","c","e"," "," ","O","r","d","e","r">>, <<"c","o","n","f","i","r","m"," ","o","r","d","e","r">>, <<"S","u","b","m","i","t"," ","P","a","y","m","e","n","t">>, <<"t","e","x","t","=","P","a","y"," ","n","o","w">>,
      <<"#","u","p","l","o","a","d">>, <<"i","n","p","u","t","[","t","y","p","e","=","f","i","l","e","]">>, <<"t","e","x","t","=","A","t","t","a","c","h","m","e","n","t">>, <<"B","r","o","w","s","e",".",".",".">>,
      <<"C","h","o","o","s","e"," ","F","i","l","e">>, <<"t","e","x","t","=","P","r","o","f","i","l","e">>, <<"D","e","l","e","t","e"," ","f","i","l","e">>, <<"U","p","l","o","a","d"," ","p","a","y","m","e","n","t">>,
      <<"t","e","x","t","=","C","o","n","t","i","n","u","e">>, <<"#","s","u","b","m","i","t">>, <<"t","e","x","t","=","B","u","y"," ","l","a","t","e","r">> }

\* targets of a goto the oracle can propose (GotoAction.validate_url: http or https)
GotoUrls ==
    { StartUrl, OtherUrl, <<"h","t","t","p","s",":","/","/","a",".","i","o","/","n","e","x","t">>, <<"h","t","t","p","s",":","/","/","a",".","i","o",":","8","4","4","3","/","n","e","x","t">>,
      <<"h","t","t","p",":","/","/","a",".","i","o","/">>, <<"h","t","t","p","s",":","/","/","b",".","i","o",":","4","4","3","/","x">>, <<"h","t","t","p","s",":","/","/","B",".","I","O","/","x">>,
      <<"h","t","t","p","s",":","/","/","u","@","b",".","i","o","/","x">>, <<"h","t","t","p","s",":","/","/","c",".","i","o">> }

\* timeout_ms of a wait_for_selector: Field(default=10000, ge=1000, le=60000)
WaitTimeouts == {1000, 10000, 60000}

\* what the allow list and the block list can hold
DomainLists == { {}, {<<"a",".","i","o">>}, {<<"b",".","i","o">>} }

ValidatorInputs ==
    {[action |-> "fill", selector |-> <<"#","q">>, value |-> v] : v \in FillValues}
    \cup {[action |-> "click", selector |-> sel] : sel \in ClickSelectors}
    \cup {[action |-> "goto", url |-> u] : u \in GotoUrls}
    \cup {[action |-> "wait_for_selector", selector |-> sel, timeout_ms |-> t] :
             sel \in {<<"#","q">>, <<"t","e","x","t","=","D","e","l","e","t","e"," ","f","i","l","e">>}, t \in WaitTimeouts}
    \cup {[action |-> "press", key |-> k] : k \in {<<"E","n","t","e","r">>, <<"D","e","l","e","t","e">>}}
    \cup {[action |-> "select", selector |-> <<"#","u","p","l","o","a","d">>, value |-> <<"4","1","1","1","1","1","1","1","1","1","1","1","1","1","1","1">>],
          [action |-> "select", selector |-> <<"#","c","o","u","n","t","r","y">>, value |-> <<"T","R">>]}
    \cup {[action |-> "assert_url_includes", value |-> v] :
             v \in {<<"/","d","a","s","h","b","o","a","r","d">>, <<"c","h","e","c","k","o","u","t">>}}
    \cup {[action |-> "done", summary |-> m] : m \in {<<"o","k">>, <<"p","a","y","m","e","n","t"," ","d","e","l","e","t","e","d">>}}

\* an action to validate under any security configuration
InitValidator ==
    /\ Start({MaxSteps})
    /\ vision_enabled = TRUE
    /\ confirm_sensitive_actions \in BOOLEAN
    /\ block_file_dialogs \in BOOLEAN
    /\ allow_navigation \in BOOLEAN
    /\ allowed_domains \in DomainLists
    /\ blocked_domains \in DomainLists
    /\ oracle = FewOracleActions
    /\ captchas = {}
    /\ sess = <<>>
    /\ proposed \in ValidatorInputs
    /\ page_url \in {StartUrl, OtherUrl}
    /\ validated = <<>>
    /\ NoExecution
    /\ NoTraffic
    /\ NoCalls

\* action_validator.validate_action(action, page.url)
Validate ==
    /\ proposed # NoAction
    /\ validated = <<>>
    /\ validated' = <<validate_action(proposed, page_url, confirm_sensitive_actions)>>
    /\ UNCHANGED <<status, steps, stored, lock_stored, tasks, task, pc, max_steps, expired,
                   timed_out, ctx, closing, url, cur, executed, config, sess,
                   network, calls, proposed,
                   page_url, execution>>

ValidatorSpec == InitValidator /\ [][Validate]_vars

\* ------------------------------------------ execute, call by call of the page
\* (success, error, result_data); result_data is None or names what was acted on
Data(what, healed) == [present |-> TRUE, what |-> what, healed |-> healed]
NoData == [present |-> FALSE, what |-> <<>>, healed |-> FALSE]
Returned(success, error, data) == [success |-> success, error |-> error, result_data |-> data]

\* str(e) of a PlaywrightTimeout and of a strict mode violation
MSG_Timeout == <<"T","i","m","e","o","u","t"," ","3","0","0","0","0","m","s"," ","e","x","c","e","e","d","e","d",".">>
MSG_Strict == <<"E","r","r","o","r",":"," ","s","t","r","i","c","t"," ","m","o","d","e"," ","v","i","o","l","a","t","i","o","n",":"," ","l","o","c","a","t","o","r"," ","r","e","s","o","l","v","e","d"," ","t","o"," ","2"," ","e","l","e","m","e","n","t","s">>
SurfaceErrors == ExcMsgs \cup {MSG_Strict}

\* alternatives[:3] of _execute_click
TopAlternatives == 3

\* the actions given to execute; the last has a tag that is none of the eight
ExecInputs ==
    { [action |-> "click", selector |-> <<"#","o","k">>],
      [action |-> "click", selector |-> <<"t","e","x","t","=","\"","S","a","v","e","\"">>],
      [action |-> "fill", selector |-> <<"i","n","p","u","t","[","n","a","m","e","=","'","e","m","a","i","l","'","]">>, value |-> <<"a","@","b",".","c">>,
       press_enter |-> FALSE],
      [action |-> "fill", selector |-> <<"#","p","a","s","s","w","o","r","d">>, value |-> <<"x">>, press_enter |-> TRUE],
      [action |-> "fill", selector |-> <<"#","q">>, value |-> <<"x">>, press_enter |-> FALSE],
      [action |-> "goto", url |-> OtherUrl],
      [action |-> "press", key |-> <<"E","n","t","e","r">>],
      [action |-> "select", selector |-> <<"#","c","o","u","n","t","r","y">>, value |-> <<"T","R">>],
      [action |-> "wait_for_selector", selector |-> <<"#","w">>, timeout_ms |-> 10000],
      [action |-> "assert_url_includes", value |-> <<"/","x">>],
      [action |-> "done", summary |-> <<"o","k">>],
      [action |-> "hover", selector |-> <<"#","o","k">>] }

\* every selector the healing of the action can come to
Candidates(action) ==
    CASE action.action = "click" -> heal_selector(action.selector, MSG_ElementNotFound)
      [] action.action = "fill" -> _get_fill_alternatives(action.selector, action.value)
      [] OTHER -> <<>>

\* the pages: what the primary calls do, whether the retry on the first match works,
\* and which of the candidates resolve (none, one, or two neighbours)
Surfaces(action) ==
    LET c == Candidates(action)
        goods == {{}} \cup {{c[k]} : k \in 1..Len(c)}
                      \cup {{c[k], c[k + 1]} : k \in 1..(Len(c) - 1)}
        primaries == {[primary |-> "ok", msg |-> <<>>, first_ok |-> TRUE],
                      [primary |-> "timeout", msg |-> MSG_Timeout, first_ok |-> FALSE]}
                     \cup {[primary |-> "error", msg |-> m, first_ok |-> f] :
                              m \in SurfaceErrors, f \in BOOLEAN}
    IN  {[primary |-> p.primary, msg |-> p.msg, first_ok |-> p.first_ok, good |-> g] :
            p \in primaries, g \in goods}

Call(action) ==
    [pc |-> "start", action |-> action, alternatives |-> <<>>, tried |-> <<>>,
     exhausted |-> None, result |-> <<>>]

InitExecutor ==
    /\ Start({MaxSteps})
    /\ vision_enabled = TRUE
    /\ confirm_sensitive_actions = TRUE
    /\ block_file_dialogs = TRUE
    /\ NavigationDefaults
    /\ oracle = FewOracleActions
    /\ captchas = {}
    /\ sess = <<>>
    /\ proposed = NoAction
    /\ validated = <<>>
    /\ page_url \in {StartUrl, OtherUrl}
    /\ NoExecution
    /\ NoTraffic
    /\ NoCalls

\* action_executor.execute(page, action) is called
BeginCall ==
    /\ ex = NoCall
    /\ \E action \in ExecInputs : ex' = Call(action) /\ surface' \in Surfaces(action)
    /\ UNCHANGED <<status, steps, stored, lock_stored, tasks, task, pc, max_steps, expired,
                   timed_out, ctx, closing, url, cur, executed, config, sess,
                   network, calls, validation>>

\* the call returns
Finish(success, error, data) ==
    [ex EXCEPT !.pc = "returned", !.result = <<Returned(success, error, data)>>]

\* the call goes on with the alternatives; error is what it returns if none works
Heal(alternatives, error) ==
    [ex EXCEPT !.pc = "healing", !.alternatives = alternatives, !.exhausted = error]

\* the handlers of execute up to their return or to the start of the healing:
\* a handler with one try around its page calls, a timeout message and a prefix for
\* the other exceptions
Guarded(data, on_timeout, prefix) ==
    CASE surface.primary = "ok" -> Finish(TRUE, None, data)
      [] surface.primary = "timeout" -> Finish(FALSE, on_timeout, NoData)
      [] OTHER -> Finish(FALSE, prefix \o surface.msg, NoData)

ClickCall(action) ==
    LET selector == action.selector
    IN  CASE surface.primary = "ok" -> Finish(TRUE, None, Data(selector, FALSE))
          [] surface.primary = "timeout" ->
                Heal(Take(heal_selector(selector, MSG_ElementNotFound), TopAlternatives),
                     <<"E","l","e","m","e","n","t"," ","n","o","t"," ","f","o","u","n","d"," ","o","r"," ","n","o","t"," ","c","l","i","c","k","a","b","l","e",":"," ">> \o selector)
          [] OTHER ->
                IF \/ Contains(<<"s","t","r","i","c","t"," ","m","o","d","e"," ","v","i","o","l","a","t","i","o","n">>, Lower(surface.msg))
                   \/ Contains(<<"r","e","s","o","l","v","e","d"," ","t","o">>, Lower(surface.msg))
                THEN IF surface.first_ok THEN Finish(TRUE, None, Data(selector, FALSE))
                     ELSE Finish(FALSE, <<"C","l","i","c","k"," ","f","a","i","l","e","d"," ","(","m","u","l","t","i","p","l","e"," ","e","l","e","m","e","n","t","s",")",":"," ">>
                                            \o surface.msg, NoData)
                ELSE Finish(FALSE, <<"C","l","i","c","k"," ","f","a","i","l","e","d",":"," ">> \o surface.msg, NoData)

FillCall(action) ==
    LET selector == action.selector
    IN  CASE surface.primary = "ok" -> Finish(TRUE, None, Data(selector, FALSE))
          [] surface.primary = "timeout" ->
                Heal(_get_fill_alternatives(selector, action.value),
                     <<"E","l","e","m","e","n","t"," ","n","o","t"," ","f","o","u","n","d",":"," ">> \o selector)
          [] OTHER ->
                Heal(_get_fill_alternatives(selector, action.value),
                     <<"F","i","l","l"," ","f","a","i","l","e","d",":"," ">> \o surface.msg)

AssertUrlCall(action) ==
    IF Contains(action.value, page_url) THEN Finish(TRUE, None, Data(page_url, FALSE))
    ELSE Finish(FALSE, <<"U","R","L"," ","d","o","e","s"," ","n","o","t"," ","c","o","n","t","a","i","n"," ","'">> \o action.value
                           \o <<"'","."," ","C","u","r","r","e","n","t",":"," ">> \o page_url, NoData)

\* execute dispatches by the action's tag
Dispatch(action) ==
    CASE action.action = "click" -> ClickCall(action)
      [] action.action = "fill" -> FillCall(action)
      [] action.action = "goto" ->
            Guarded(Data(action.url, FALSE),
                    <<"N","a","v","i","g","a","t","i","o","n"," ","t","i","m","e","o","u","t",":"," ">> \o action.url,
                    <<"N","a","v","i","g","a","t","i","o","n"," ","f","a","i","l","e","d",":"," ">>)
      [] action.action = "press" ->
            Guarded(Data(action.key, FALSE),
                    <<"K","e","y"," ","p","r","e","s","s"," ","f","a","i","l","e","d",":"," ">> \o surface.msg,
                    <<"K","e","y"," ","p","r","e","s","s"," ","f","a","i","l","e","d",":"," ">>)
      [] action.action = "select" ->
            Guarded(Data(action.selector, FALSE),
                    <<"S","e","l","e","c","t"," ","e","l","e","m","e","n","t"," ","n","o","t"," ","f","o","u","n","d",":"," ">> \o action.selector,
                    <<"S","e","l","e","c","t"," ","f","a","i","l","e","d",":"," ">>)
      [] action.action = "wait_for_selector" ->
            Guarded(Data(action.selector, FALSE),
                    <<"E","l","e","m","e","n","t"," ","d","i","d"," ","n","o","t"," ","a","p","p","e","a","r"," ","w","i","t","h","i","n"," ">> \o IntToStr(action.timeout_ms)
                        \o <<"m","s",":"," ">> \o action.selector,
                    <<"W","a","i","t"," ","f","a","i","l","e","d",":"," ">>)
      [] action.action = "assert_url_includes" -> AssertUrlCall(action)
      [] action.action = "done" -> Finish(TRUE, None, Data(action.summary, FALSE))
      [] OTHER -> Finish(FALSE, <<"U","n","k","n","o","w","n"," ","a","c","t","i","o","n"," ","t","y","p","e",":"," ">> \o <<action.action>>, NoData)

\* a key press whose handler lets the exceptions of the page through
ExecuteCall_Unguarded ==
    /\ ex.pc = "start"
    /\ ex' = IF ex.action.action = "press" /\ surface.primary # "ok"
             THEN [ex EXCEPT !.pc = "raised"]
             ELSE Dispatch(ex.action)
    /\ UNCHANGED <<status, steps, stored, lock_stored, tasks, task, pc, max_steps, expired,
                   timed_out, ctx, closing, url, cur, executed, config, sess,
                   network, calls, validation,
                   surface>>

\* execute up to its return or to the start of the healing
ExecuteCall ==
    /\ ex.pc = "start"
    /\ ex' = Dispatch(ex.action)
    /\ UNCHANGED <<status, steps, stored, lock_stored, tasks, task, pc, max_steps, expired,
                   timed_out, ctx, closing, url, cur, executed, config, sess,
                   network, calls, validation,
                   surface>>

\* a healing loop that goes on after an alternative has worked
HealNext_NoStop ==
    /\ ex.pc = "healing"
    /\ Len(ex.tried) < Len(ex.alternatives)
    /\ LET alt_selector == ex.alternatives[Len(ex.tried) + 1]
       IN  ex' = [ex EXCEPT !.tried = Append(@, alt_selector)]
    /\ UNCHANGED <<status, steps, stored, lock_stored, tasks, task, pc, max_steps, expired,
                   timed_out, ctx, closing, url, cur, executed, config, sess,
                   network, calls, validation,
                   surface>>

\* one turn of the loop over the alternatives: the next one is tried, and the call
\* returns if it works
HealNext ==
    /\ ex.pc = "healing"
    /\ Len(ex.tried) < Len(ex.alternatives)
    /\ LET alt_selector == ex.alternatives[Len(ex.tried) + 1]
           tried == [ex EXCEPT !.tried = Append(@, alt_selector)]
       IN  ex' = IF alt_selector \in surface.good
                 THEN [tried EXCEPT !.pc = "returned",
                                    !.result = <<Returned(TRUE, None,
                                                          Data(alt_selector, TRUE))>>]
                 ELSE tried
    /\ UNCHANGED <<status, steps, stored, lock_stored, tasks, task, pc, max_steps, expired,
                   timed_out, ctx, closing, url, cur, executed, config, sess,
                   network, calls, validation,
                   surface>>

\* the loop has tried every alternative
HealExhausted ==
    /\ ex.pc = "healing"
    /\ Len(ex.tried) = Len(ex.alternatives)
    /\ ex' = Finish(FALSE, ex.exhausted, NoData)
    /\ UNCHANGED <<status, steps, stored, lock_stored, tasks, task, pc, max_steps, expired,
                   timed_out, ctx, closing, url, cur, executed, config, sess,
                   network, calls, validation,
                   surface>>

\* the steps of a call that has begun
CallStep == ExecuteCall \/ HealNext \/ HealExhausted

NextExecutor == BeginCall \/ CallStep

ExecutorSpec == InitExecutor /\ [][NextExecutor]_vars

\* ------------------------------------------- NetworkMonitor, event by event
\* most requests the browser context makes in a run
MaxRequests == 2

\* config.network.verify_backend_success: on_request awaits the request's headers
verify_backend_success == TRUE

\* Optional[...] of a NetworkEvent's status and latency: unset, or set to x
Unset == <<>>
Set(x) == <<x>>

LoginUrl == <<"h","t","t","p","s",":","/","/","a",".","i","o","/","a","p","i","/","l","o","g","i","n">>
HomeUrl == <<"h","t","t","p","s",":","/","/","a",".","i","o","/","h","o","m","e">>

\* the requests of a page: a login call and a document
Requests ==
    { [method |-> "POST", url |-> LoginUrl, resource_type |-> "xhr"],
      [method |-> "GET", url |-> HomeUrl, resource_type |-> "document"] }

\* response.status
Statuses == {200, 500}

\* request.failure
FailureText == <<"n","e","t",":",":","E","R","R","_","F","A","I","L","E","D">>

\* request_id: method and url, joined by a colon no method holds
request_id(request) == <<request.method, request.url>>

RequestIds == {request_id(q) : q \in Requests}

\* NetworkEvent(timestamp, method, url, resource_type); req names the request it
\* was opened for, which the program does not record
NetworkEvent(req, timestamp, request) ==
    [req |-> req, timestamp |-> timestamp, method |-> request.method,
     url |-> request.url, resource_type |-> request.resource_type,
     status |-> Unset, response_time_ms |-> Unset, failure |-> None]

is_success(event) ==
    event.status # Unset /\ 200 <= event.status[1] /\ event.status[1] < 300

EndsWith(str, suffix) ==
    Len(suffix) <= Len(str) /\ SubSeq(str, Len(str) - Len(suffix) + 1, Len(str)) = suffix

is_api_call(event) ==
    \/ event.resource_type \in {"xhr", "fetch"}
    \/ Contains(<<"/","a","p","i","/">>, event.url)
    \/ Contains(<<"/","v","1","/">>, event.url)
    \/ Contains(<<"/","v","2","/">>, event.url)
    \/ EndsWith(event.url, <<".","j","s","o","n">>)

\* the scan from the oldest event on
MatchingEvent_Oldest(evs, request, i) ==
    LET open == {j \in 1..i : /\ evs[j].method = request.method
                              /\ evs[j].url = request.url
                              /\ evs[j].status = Unset}
    IN IF open = {} THEN 0 ELSE CHOOSE j \in open : \A k \in open : j <= k

\* for event in reversed(self.events): the first with the request's method and url
\* and no status, from position i down; 0 when there is none
RECURSIVE MatchingEvent(_, _, _)
MatchingEvent(evs, request, i) ==
    IF i = 0 THEN 0
    ELSE IF /\ evs[i].method = request.method
            /\ evs[i].url = request.url
            /\ evs[i].status = Unset
         THEN i
         ELSE MatchingEvent(evs, request, i - 1)

\* the filters of get_recent_events, one after the other
RECURSIVE Filter(_, _)
Filter(evs, keep) ==
    IF evs = <<>> THEN <<>>
    ELSE (IF keep[1] THEN <<Head(evs)>> ELSE <<>>) \o Filter(Tail(evs), Tail(keep))

\* a window that leaves out the events exactly seconds old
get_recent_events_Shorter(evs, now, seconds, api_only, success_only) ==
    LET cutoff_time == now - seconds
        recent == Filter(evs, [i \in 1..Len(evs) |-> evs[i].timestamp > cutoff_time])
        api == IF api_only
               THEN Filter(recent, [i \in 1..Len(recent) |-> is_api_call(recent[i])])
               ELSE recent
    IN IF success_only
       THEN Filter(api, [i \in 1..Len(api) |-> is_success(api[i])])
       ELSE api

get_recent_events(evs, now, seconds, api_only, success_only) ==
    LET cutoff_time == now - seconds
        recent == Filter(evs, [i \in 1..Len(evs) |-> evs[i].timestamp >= cutoff_time])
        api == IF api_only
               THEN Filter(recent, [i \in 1..Len(recent) |-> is_api_call(recent[i])])
               ELSE recent
    IN IF success_only
       THEN Filter(api, [i \in 1..Len(api) |-> is_success(api[i])])
       ELSE api

\* the window AgentLoop._observe asks for
RecentSeconds == 2

\* the latest second of a run: one past the window
MaxClock == RecentSeconds + 1

InitMonitor ==
    /\ Start({MaxSteps})
    /\ vision_enabled = TRUE
    /\ confirm_sensitive_actions = TRUE
    /\ block_file_dialogs = TRUE
    /\ NavigationDefaults
    /\ oracle = FewOracleActions
    /\ captchas = {}
    /\ sess = <<>>
    /\ NoValidation
    /\ NoExecution
    /\ events = <<>>
    /\ _request_start_times = [id \in RequestIds |-> Unset]
    /\ clock = 0
    /\ traffic = <<>>
    /\ NoCalls

still == <<one, max_steps, config, sess, validation, execution, calls>>

\* on_request up to its await: the start time is written and the event created
on_request ==
    /\ Len(traffic) < MaxRequests
    /\ \E request \in Requests :
          /\ _request_start_times' =
                [_request_start_times EXCEPT ![request_id(request)] = Set(clock)]
          /\ traffic' = Append(traffic,
                [request |-> request, timestamp |-> clock,
                 stage |-> IF verify_backend_success THEN "headers" ELSE "opened",
                 outcome |-> "none", status |-> Unset, heard_at |-> "none"])
          /\ events' = IF verify_backend_success THEN events
                       ELSE Append(events,
                                   NetworkEvent(Len(traffic) + 1, clock, request))
    /\ UNCHANGED <<clock, still>>

\* request.all_headers() returns and on_request appends the event
on_request_resumes ==
    \E r \in DOMAIN traffic :
        /\ traffic[r].stage = "headers"
        /\ events' = Append(events,
                            NetworkEvent(r, traffic[r].timestamp, traffic[r].request))
        /\ traffic' = [traffic EXCEPT ![r].stage = "opened"]
        /\ UNCHANGED <<_request_start_times, clock, still>>

on_response ==
    \E r \in DOMAIN traffic, response_status \in Statuses :
        LET request == traffic[r].request
            m == MatchingEvent(events, request, Len(events))
            start_time == _request_start_times[request_id(request)]
        IN /\ traffic[r].outcome = "none"
           /\ traffic' = [traffic EXCEPT ![r].outcome = "response",
                                         ![r].status = Set(response_status),
                                         ![r].heard_at = traffic[r].stage]
           /\ IF m = 0
              THEN UNCHANGED <<events, _request_start_times>>
              ELSE IF start_time # Unset
                   THEN /\ events' =
                             [events EXCEPT
                                ![m].status = Set(response_status),
                                ![m].response_time_ms =
                                    Set((clock - start_time[1]) * 1000)]
                        /\ _request_start_times' =
                             [_request_start_times EXCEPT ![request_id(request)] = Unset]
                   ELSE /\ events' = [events EXCEPT ![m].status = Set(response_status)]
                        /\ UNCHANGED _request_start_times
           /\ UNCHANGED <<clock, still>>

on_request_failed ==
    \E r \in DOMAIN traffic :
        LET request == traffic[r].request
            m == MatchingEvent(events, request, Len(events))
        IN /\ traffic[r].outcome = "none"
           /\ traffic' = [traffic EXCEPT ![r].outcome = "failed",
                                         ![r].heard_at = traffic[r].stage]
           /\ events' = IF m = 0 THEN events
                        ELSE [events EXCEPT ![m].failure = FailureText]
           /\ UNCHANGED <<_request_start_times, clock, still>>

\* a second passes
Tick ==
    /\ clock < MaxClock
    /\ clock' = clock + 1
    /\ UNCHANGED <<events, _request_start_times, traffic, still>>

NextMonitor ==
    \/ on_request
    \/ on_request_resumes
    \/ on_response
    \/ on_request_failed
    \/ Tick

MonitorSpec == InitMonitor /\ [][NextMonitor]_vars

\* --------------------------------------------- NetworkMonitor, retention
\* max_age_seconds of clear_old_events, as AgentLoop.run calls it
max_age_seconds == 300

\* the longest the loop waits between two looks at the monitor
LongWait == max_age_seconds

\* the latest second of a long run
RetentionEnd == max_age_seconds + LongWait

\* old start times are kept when they are exactly max_age old
clear_old_events_SameEdge(evs, starts, now, max_age) ==
    LET cutoff_time == now - max_age
        current_time == now
    IN [events |-> Filter(evs, [i \in 1..Len(evs) |-> evs[i].timestamp >= cutoff_time]),
        _request_start_times |->
            [k \in DOMAIN starts |->
                IF starts[k] # Unset /\ current_time - starts[k][1] <= max_age
                THEN starts[k] ELSE Unset]]

clear_old_events(evs, starts, now, max_age) ==
    LET cutoff_time == now - max_age
        current_time == now
    IN [events |-> Filter(evs, [i \in 1..Len(evs) |-> evs[i].timestamp >= cutoff_time]),
        _request_start_times |->
            [k \in DOMAIN starts |->
                IF starts[k] # Unset /\ current_time - starts[k][1] < max_age
                THEN starts[k] ELSE Unset]]

\* AgentLoop.run, between two steps: network_monitor.clear_old_events()
PeriodicCleanup ==
    LET cleared == clear_old_events(events, _request_start_times, clock, max_age_seconds)
    IN /\ events' = cleared.events
       /\ _request_start_times' = cleared._request_start_times
       /\ UNCHANGED <<clock, traffic, still>>

\* the run goes on for a while
Wait ==
    /\ clock + LongWait <= RetentionEnd
    /\ clock' = clock + LongWait
    /\ UNCHANGED <<events, _request_start_times, traffic, still>>

\* a long run of requests that are answered or stay open
NextRetention ==
    \/ on_request
    \/ on_request_resumes
    \/ on_response
    \/ Wait
    \/ PeriodicCleanup

RetentionSpec == InitMonitor /\ [][NextRetention]_vars

\* ------------------------------------------------ CaptchaDetector.detect
CAPTCHA_SELECTORS ==
    << <<"i","f","r","a","m","e","[","s","r","c","*","=","\"","r","e","c","a","p","t","c","h","a","\"","]">>,
       <<"d","i","v",".","g","-","r","e","c","a","p","t","c","h","a">>,
       <<"#","g","-","r","e","c","a","p","t","c","h","a">>,
       <<"[","d","a","t","a","-","s","i","t","e","k","e","y","]">>,
       <<"i","f","r","a","m","e","[","s","r","c","*","=","\"","h","c","a","p","t","c","h","a","\"","]">>,
       <<"d","i","v",".","h","-","c","a","p","t","c","h","a">>,
       <<"[","d","a","t","a","-","h","c","a","p","t","c","h","a","-","s","i","t","e","k","e","y","]">>,
       <<"d","i","v",".","c","f","-","c","h","a","l","l","e","n","g","e">>,
       <<"#","c","f","-","c","h","a","l","l","e","n","g","e","-","r","u","n","n","i","n","g">>,
       <<"d","i","v",".","c","h","a","l","l","e","n","g","e","-","f","o","r","m">>,
       <<"i","m","g","[","a","l","t","*","=","\"","c","a","p","t","c","h","a","\""," ","i","]">>,
       <<"i","m","g","[","s","r","c","*","=","\"","c","a","p","t","c","h","a","\""," ","i","]">>,
       <<"d","i","v","[","c","l","a","s","s","*","=","\"","c","a","p","t","c","h","a","\""," ","i","]">>,
       <<"f","o","r","m","[","c","l","a","s","s","*","=","\"","c","a","p","t","c","h","a","\""," ","i","]">>,
       <<"l","a","b","e","l","[","f","o","r","*","=","\"","c","a","p","t","c","h","a","\""," ","i","]">>,
       <<"i","n","p","u","t","[","n","a","m","e","*","=","\"","c","a","p","t","c","h","a","\""," ","i","]">>,
       <<"i","n","p","u","t","[","p","l","a","c","e","h","o","l","d","e","r","*","=","\"","c","a","p","t","c","h","a","\""," ","i","]">>,
       <<":","h","a","s","-","t","e","x","t","(","\"","v","e","r","i","f","y"," ","y","o","u"," ","a","r","e"," ","h","u","m","a","n","\"",")">>,
       <<":","h","a","s","-","t","e","x","t","(","\"","i"," ","a","m"," ","n","o","t"," ","a"," ","r","o","b","o","t","\"",")">>,
       <<":","h","a","s","-","t","e","x","t","(","\"","c","o","m","p","l","e","t","e"," ","t","h","e"," ","c","a","p","t","c","h","a","\"",")">>,
       <<":","h","a","s","-","t","e","x","t","(","\"","s","e","c","u","r","i","t","y"," ","c","h","e","c","k","\"",")">> >>

CAPTCHA_TEXT_PATTERNS ==
    << <<"v","e","r","i","f","y"," ","y","o","u"," ","a","r","e"," ","h","u","m","a","n">>,
       <<"i"," ","a","m"," ","n","o","t"," ","a"," ","r","o","b","o","t">>,
       <<"i","'","m"," ","n","o","t"," ","a"," ","r","o","b","o","t">>,
       <<"c","o","m","p","l","e","t","e"," ","t","h","e"," ","c","a","p","t","c","h","a">>,
       <<"e","n","t","e","r"," ","t","h","e"," ","c","o","d","e">>,
       <<"s","e","c","u","r","i","t","y"," ","c","h","e","c","k">>,
       <<"v","e","r","i","f","i","c","a","t","i","o","n"," ","r","e","q","u","i","r","e","d">>,
       <<"p","r","o","v","e"," ","y","o","u","'","r","e"," ","n","o","t"," ","a"," ","r","o","b","o","t">>,
       <<"s","e","l","e","c","t"," ","a","l","l"," ","i","m","a","g","e","s">> >>

\* a call of the page that raises
RAISES == <<"raises">>

_identify_captcha_type(selector) ==
    LET selector_lower == Lower(selector)
    IN IF \/ Contains(<<"r","e","c","a","p","t","c","h","a">>, selector_lower)
          \/ Contains(<<"g","-","r","e","c","a","p","t","c","h","a">>, selector_lower)
       THEN "recaptcha"
       ELSE IF \/ Contains(<<"h","c","a","p","t","c","h","a">>, selector_lower)
               \/ Contains(<<"h","-","c","a","p","t","c","h","a">>, selector_lower)
       THEN "hcaptcha"
       ELSE IF \/ Contains(<<"c","l","o","u","d","f","l","a","r","e">>, selector_lower)
               \/ Contains(<<"c","f","-","c","h","a","l","l","e","n","g","e">>, selector_lower)
       THEN "cloudflare"
       ELSE "generic"

\* the title is read, then the script that looks for challenges.cloudflare.com is run;
\* an exception of either is swallowed
_check_cloudflare_challenge(page) ==
    IF page.title = RAISES THEN FALSE
    ELSE IF \/ Contains(<<"j","u","s","t"," ","a"," ","m","o","m","e","n","t">>, Lower(page.title))
            \/ Contains(<<"c","h","e","c","k","i","n","g"," ","y","o","u","r"," ","b","r","o","w","s","e","r">>, Lower(page.title))
    THEN TRUE
    ELSE page.script = "yes"

\* (has_captcha, captcha_type), and in by the selector or phrase of captcha_info
Detected(captcha_type, by) ==
    [has_captcha |-> TRUE, captcha_type |-> captcha_type, by |-> by]
NotDetected == [has_captcha |-> FALSE, captcha_type |-> None, by |-> None]

\* for selector in self.CAPTCHA_SELECTORS, from the i-th on: the first whose count
\* is positive; a selector whose count raises is passed over; 0 when there is none
RECURSIVE FirstSelector(_, _)
FirstSelector(page, i) ==
    IF i > Len(CAPTCHA_SELECTORS) THEN 0
    ELSE IF /\ CAPTCHA_SELECTORS[i] \notin page.raising
            /\ CAPTCHA_SELECTORS[i] \in page.matching
         THEN i
         ELSE FirstSelector(page, i + 1)

\* for pattern in self.CAPTCHA_TEXT_PATTERNS, from the i-th on
RECURSIVE FirstPattern(_, _)
FirstPattern(content_lower, i) ==
    IF i > Len(CAPTCHA_TEXT_PATTERNS) THEN 0
    ELSE IF Contains(CAPTCHA_TEXT_PATTERNS[i], content_lower) THEN i
         ELSE FirstPattern(content_lower, i + 1)

\* the phrases are looked for before the selectors
detect_TextFirst(page) ==
    LET s == FirstSelector(page, 1)
        p == IF page.content = RAISES THEN 0 ELSE FirstPattern(Lower(page.content), 1)
    IN IF p # 0 THEN Detected("generic", CAPTCHA_TEXT_PATTERNS[p])
       ELSE IF s # 0
       THEN Detected(_identify_captcha_type(CAPTCHA_SELECTORS[s]), CAPTCHA_SELECTORS[s])
       ELSE IF _check_cloudflare_challenge(page) THEN Detected("cloudflare", None)
       ELSE NotDetected

detect(page) ==
    LET s == FirstSelector(page, 1)
        p == IF page.content = RAISES THEN 0 ELSE FirstPattern(Lower(page.content), 1)
    IN IF s # 0
       THEN Detected(_identify_captcha_type(CAPTCHA_SELECTORS[s]), CAPTCHA_SELECTORS[s])
       ELSE IF p # 0 THEN Detected("generic", CAPTCHA_TEXT_PATTERNS[p])
       ELSE IF _check_cloudflare_challenge(page) THEN Detected("cloudflare", None)
       ELSE NotDetected

Selectors == {CAPTCHA_SELECTORS[i] : i \in DOMAIN CAPTCHA_SELECTORS}

\* what page.content() and page.title() return
Contents ==
    { <<"<","p",">","W","e","l","c","o","m","e","<","/","p",">">>,
      <<"<","h","1",">","S","e","c","u","r","i","t","y"," ","C","h","e","c","k","<","/","h","1",">">>,
      <<"<","p",">","S","e","l","e","c","t"," ","a","l","l"," ","i","m","a","g","e","s",","," ","t","h","e","n"," ","t","i","c","k"," ","I","'","m"," ","n","o","t"," ","a"," ","r","o","b","o","t","<","/","p",">">>,
      RAISES }
Titles == { <<"S","h","o","p">>, <<"J","u","s","t"," ","a"," ","m","o","m","e","n","t",".",".",".">>, RAISES }

\* the pages: no selector matches, or one, or two that are neighbours in the list or
\* four places apart; at most one selector's count raises
DetectorPages ==
    { [matching |-> matching, raising |-> raising, content |-> content,
       title |-> title, script |-> script] :
        matching \in {{}} \cup {{sel} : sel \in Selectors}
                     \cup {{CAPTCHA_SELECTORS[i], CAPTCHA_SELECTORS[i + d]} :
                             i \in 1..(Len(CAPTCHA_SELECTORS) - 4), d \in {1, 4}},
        raising \in {{}, {CAPTCHA_SELECTORS[1]}, {CAPTCHA_SELECTORS[8]}},
        content \in Contents, title \in Titles, script \in {"yes", "no", "raises"} }

InitDetector ==
    /\ Start({MaxSteps})
    /\ vision_enabled = TRUE
    /\ confirm_sensitive_actions = TRUE
    /\ block_file_dialogs = TRUE
    /\ NavigationDefaults
    /\ oracle = FewOracleActions
    /\ captchas = {}
    /\ sess = <<>>
    /\ NoValidation
    /\ ex = NoCall
    /\ NoTraffic
    /\ gen = NoCall
    /\ surface \in DetectorPages
    /\ cap = [pc |-> "detect"]

\* captcha_handler.detector.detect(page)
DetectCall ==
    /\ cap.pc = "detect"
    /\ cap' = [pc |-> "detected", result |-> detect(surface)]
    /\ UNCHANGED <<one, max_steps, config, sess, validation, surface, ex, network, gen>>

DetectorSpec == InitDetector /\ [][DetectCall]_vars

\* ------------------------------------------- CaptchaHandler, call by call
\* what a handler returns, with the calls it made of the page, in order
Handled(success, error, made) == [success |-> success, error |-> error, made |-> made]

MSG_RecaptchaImage == <<"r","e","C","A","P","T","C","H","A"," ","i","m","a","g","e"," ","c","h","a","l","l","e","n","g","e"," ","r","e","q","u","i","r","e","s"," ","h","u","m","a","n"," ","i","n","t","e","r","v","e","n","t","i","o","n">>
MSG_RecaptchaNotFound == <<"C","o","u","l","d"," ","n","o","t"," ","f","i","n","d"," ","r","e","C","A","P","T","C","H","A"," ","c","h","e","c","k","b","o","x">>
MSG_HcaptchaImage == <<"h","C","a","p","t","c","h","a"," ","i","m","a","g","e"," ","c","h","a","l","l","e","n","g","e"," ","r","e","q","u","i","r","e","s"," ","h","u","m","a","n"," ","i","n","t","e","r","v","e","n","t","i","o","n">>
MSG_HcaptchaNotFound == <<"C","o","u","l","d"," ","n","o","t"," ","f","i","n","d"," ","h","C","a","p","t","c","h","a"," ","c","h","e","c","k","b","o","x">>

\* "Try direct click on main page", after the frames
RecaptchaDirect(page, made) ==
    IF page.main.checkbox = "raises"
    THEN Handled(FALSE, page.exc, made \o <<"count">>)
    ELSE IF page.main.checkbox = "absent"
    THEN Handled(FALSE, MSG_RecaptchaNotFound, made \o <<"count">>)
    ELSE IF page.main.click = "raises"
    THEN Handled(FALSE, page.exc, made \o <<"count", "click raises">>)
    ELSE Handled(TRUE, None, made \o <<"count", "click">>)

\* for frame in frames, from the i-th on; an exception within a frame goes on to the
\* next frame
RECURSIVE RecaptchaFrames(_, _, _)
RecaptchaFrames(page, i, made) ==
    IF i > Len(page.frames) THEN RecaptchaDirect(page, made)
    ELSE LET frame == page.frames[i]
         IN IF ~frame.recaptcha THEN RecaptchaFrames(page, i + 1, made)
            ELSE IF frame.checkbox = "raises"
            THEN RecaptchaFrames(page, i + 1, made \o <<"count">>)
            ELSE IF frame.checkbox = "absent"
            THEN RecaptchaFrames(page, i + 1, made \o <<"count">>)
            ELSE IF frame.click = "raises"
            THEN RecaptchaFrames(page, i + 1, made \o <<"count", "click raises">>)
            ELSE IF frame.image = "raises"
            THEN RecaptchaFrames(page, i + 1, made \o <<"count", "click", "recheck">>)
            ELSE IF frame.image = "yes"
            THEN Handled(FALSE, MSG_RecaptchaImage, made \o <<"count", "click", "recheck">>)
            ELSE Handled(TRUE, None, made \o <<"count", "click", "recheck">>)

HandleRecaptcha(page) == RecaptchaFrames(page, 1, <<>>)

\* a handler that clicks again when the image challenge has come up
HandleHcaptcha_ClickAgain(page) ==
    IF page.main.checkbox = "raises"
    THEN Handled(FALSE, page.exc, <<"count">>)
    ELSE IF page.main.checkbox = "absent"
    THEN Handled(FALSE, MSG_HcaptchaNotFound, <<"count">>)
    ELSE IF page.main.click = "raises"
    THEN Handled(FALSE, page.exc, <<"count", "click raises">>)
    ELSE IF page.main.image = "raises"
    THEN Handled(FALSE, page.exc, <<"count", "click", "recheck">>)
    ELSE IF page.main.image = "yes"
    THEN Handled(FALSE, MSG_HcaptchaImage, <<"count", "click", "recheck", "click">>)
    ELSE Handled(TRUE, None, <<"count", "click", "recheck">>)

HandleHcaptcha(page) ==
    IF page.main.checkbox = "raises"
    THEN Handled(FALSE, page.exc, <<"count">>)
    ELSE IF page.main.checkbox = "absent"
    THEN Handled(FALSE, MSG_HcaptchaNotFound, <<"count">>)
    ELSE IF page.main.click = "raises"
    THEN Handled(FALSE, page.exc, <<"count", "click raises">>)
    ELSE IF page.main.image = "raises"
    THEN Handled(FALSE, page.exc, <<"count", "click", "recheck">>)
    ELSE IF page.main.image = "yes"
    THEN Handled(FALSE, MSG_HcaptchaImage, <<"count", "click", "recheck">>)
    ELSE Handled(TRUE, None, <<"count", "click", "recheck">>)

\* how a frame answers: another site's frame, or one of the provider's
Frames ==
    {[recaptcha |-> FALSE, checkbox |-> "absent", click |-> "ok", image |-> "no"]}
    \cup [recaptcha : {TRUE}, checkbox : {"present", "absent", "raises"},
          click : {"ok", "raises"}, image : {"yes", "no", "raises"}]

\* how the main page answers
Mains ==
    [checkbox : {"present", "absent", "raises"}, click : {"ok", "raises"},
     image : {"yes", "no", "raises"}]

\* most frames of a page
MaxFrames == 2

RECURSIVE FrameLists(_)
FrameLists(n) ==
    IF n = 0 THEN {<<>>}
    ELSE FrameLists(n - 1)
         \cup {Append(fs, f) : fs \in {l \in FrameLists(n - 1) : Len(l) = n - 1},
                               f \in Frames}

CheckboxPages ==
    [kind : {"recaptcha"}, frames : FrameLists(MaxFrames),
     main : {mn \in Mains : mn.image = "no"}, exc : ExcMsgs]
    \cup [kind : {"hcaptcha"}, frames : {<<>>}, main : Mains, exc : ExcMsgs]

\* max_wait of _handle_cloudflare, in seconds
max_wait == 30

MSG_CloudflareTimeout == <<"C","l","o","u","d","f","l","a","r","e"," ","c","h","a","l","l","e","n","g","e"," ","t","i","m","e","o","u","t">>

CloudflarePages == [kind : {"cloudflare"}, exc : ExcMsgs]

InitHandler ==
    /\ Start({MaxSteps})
    /\ vision_enabled = TRUE
    /\ confirm_sensitive_actions = TRUE
    /\ block_file_dialogs = TRUE
    /\ NavigationDefaults
    /\ oracle = FewOracleActions
    /\ captchas = {}
    /\ sess = <<>>
    /\ NoValidation
    /\ ex = NoCall
    /\ NoTraffic
    /\ gen = NoCall
    /\ surface \in CheckboxPages \cup CloudflarePages
    /\ cap = [pc |-> "handle"]

unhandled == <<one, max_steps, config, sess, validation, surface, ex, network, gen>>

\* handle(page) for a challenge with a checkbox
HandleCheckbox ==
    /\ cap.pc = "handle"
    /\ surface.kind \in {"recaptcha", "hcaptcha"}
    /\ cap' = [pc |-> "returned",
               result |-> IF surface.kind = "recaptcha" THEN HandleRecaptcha(surface)
                          ELSE HandleHcaptcha(surface)]
    /\ UNCHANGED unhandled

\* handle(page) for an interstitial: _handle_cloudflare reads the clock
BeginCloudflare ==
    /\ cap.pc = "handle"
    /\ surface.kind = "cloudflare"
    /\ cap' = [pc |-> "polling", elapsed |-> 0, polls |-> 0]
    /\ UNCHANGED unhandled

\* a poll that does not move the clock
PollCloudflare_NoClock ==
    /\ cap.pc = "polling"
    /\ cap.elapsed < max_wait
    /\ \E answer \in {"challenge", "gone", "raises"} :
          cap' = CASE answer = "gone" ->
                        [pc |-> "returned", elapsed |-> cap.elapsed,
                         polls |-> cap.polls + 1, last |-> answer,
                         result |-> Handled(TRUE, None, <<>>)]
                   [] answer = "raises" ->
                        [pc |-> "returned", elapsed |-> cap.elapsed,
                         polls |-> cap.polls + 1, last |-> answer,
                         result |-> Handled(FALSE, surface.exc, <<>>)]
                   [] OTHER -> [cap EXCEPT !.polls = @ + 1]
    /\ UNCHANGED unhandled

\* one turn of the while loop: the title is read and the script run; the challenge
\* is gone, or a call raises, or the loop sleeps a second; the turn takes one or two
PollCloudflare ==
    /\ cap.pc = "polling"
    /\ cap.elapsed < max_wait
    /\ \E answer \in {"challenge", "gone", "raises"}, took \in {1, 2} :
          cap' = CASE answer = "gone" ->
                        [pc |-> "returned", elapsed |-> cap.elapsed,
                         polls |-> cap.polls + 1, last |-> answer,
                         result |-> Handled(TRUE, None, <<>>)]
                   [] answer = "raises" ->
                        [pc |-> "returned", elapsed |-> cap.elapsed,
                         polls |-> cap.polls + 1, last |-> answer,
                         result |-> Handled(FALSE, surface.exc, <<>>)]
                   [] OTHER -> [cap EXCEPT !.polls = @ + 1, !.elapsed = @ + took]
    /\ UNCHANGED unhandled

\* the while condition fails
CloudflareTimeout ==
    /\ cap.pc = "polling"
    /\ cap.elapsed >= max_wait
    /\ cap' = [pc |-> "returned", elapsed |-> cap.elapsed, polls |-> cap.polls,
               last |-> "challenge",
               result |-> Handled(FALSE, MSG_CloudflareTimeout, <<>>)]
    /\ UNCHANGED unhandled

NextHandler == HandleCheckbox \/ BeginCloudflare \/ PollCloudflare \/ CloudflareTimeout

HandlerSpec == InitHandler /\ [][NextHandler]_vars

\* ------------------------------------------------- LLMClient.generate_action
\* max_retries of generate_action
max_retries == 3

\* the keys each action class requires, and the class's other keys with defaults
RequiredKeys(action_type) ==
    CASE action_type = "click" -> {"selector"}
      [] action_type = "fill" -> {"selector", "value"}
      [] action_type = "goto" -> {"url"}
      [] action_type = "press" -> {"key"}
      [] action_type = "select" -> {"selector", "value"}
      [] action_type = "wait_for_selector" -> {"selector"}
      [] action_type = "assert_url_includes" -> {"value"}
      [] action_type = "done" -> {"summary"}

\* the eight branches of generate_action
ActionTypes ==
    {"click", "fill", "goto", "press", "select", "wait_for_selector",
     "assert_url_includes", "done"}

\* action_data.get("action")
ActionTypeOf(action_data) ==
    IF "action" \in DOMAIN action_data THEN action_data.action ELSE "None"

\* the action class accepts the keys: the required ones are there, a goto's url has
\* a protocol, a wait's timeout_ms is within 1000..60000
Accepts(action_data) ==
    LET action_type == ActionTypeOf(action_data)
    IN /\ RequiredKeys(action_type) \subseteq DOMAIN action_data
       /\ action_type = "goto" =>
            \/ StartsWith(action_data.url, <<"h","t","t","p",":","/","/">>)
            \/ StartsWith(action_data.url, <<"h","t","t","p","s",":","/","/">>)
       /\ (action_type = "wait_for_selector" /\ "timeout_ms" \in DOMAIN action_data) =>
            1000 <= action_data.timeout_ms /\ action_data.timeout_ms <= 60000

\* the action the class builds: the keys given and the defaults of the others
Build(action_data) ==
    LET action_type == ActionTypeOf(action_data)
    IN CASE action_type = "fill" /\ "press_enter" \notin DOMAIN action_data ->
               [action |-> "fill", selector |-> action_data.selector,
                value |-> action_data.value, press_enter |-> FALSE]
         [] action_type = "wait_for_selector" /\ "timeout_ms" \notin DOMAIN action_data ->
               [action |-> "wait_for_selector", selector |-> action_data.selector,
                timeout_ms |-> 10000]
         [] OTHER -> action_data

\* what provider.generate does: it raises, or returns text that is no JSON, JSON that
\* is no object, or an object
ProviderResponses ==
    { [kind |-> "raises"], [kind |-> "text"], [kind |-> "list"] }
    \cup { [kind |-> "object", data |-> d] : d \in
            { [action |-> "click", selector |-> <<"#","o","k">>],
              [action |-> "click"],
              [action |-> "fill", selector |-> <<"#","q">>, value |-> <<"x">>],
              [action |-> "goto", url |-> StartUrl],
              [action |-> "goto", url |-> <<"f","t","p",":","/","/","a",".","i","o">>],
              [action |-> "wait_for_selector", selector |-> <<"#","w">>],
              [action |-> "wait_for_selector", selector |-> <<"#","w">>, timeout_ms |-> 500],
              [action |-> "done", summary |-> <<"o","k">>],
              [action |-> "hover", selector |-> <<"#","o","k">>],
              [selector |-> <<"#","o","k">>] } }

\* how one turn of the loop ends for a response: with the action, in the handler of
\* json.JSONDecodeError, in the handler of Exception, or at the continue of the
\* unknown type
TurnEnds(response) ==
    CASE response.kind = "raises" -> "exception"
      [] response.kind = "text" -> "decode"
      [] response.kind = "list" -> "exception"
      [] ActionTypeOf(response.data) \notin ActionTypes -> "unknown"
      [] ~Accepts(response.data) -> "exception"
      [] OTHER -> "action"

InitGenerator ==
    /\ Start({MaxSteps})
    /\ vision_enabled = TRUE
    /\ confirm_sensitive_actions = TRUE
    /\ block_file_dialogs = TRUE
    /\ NavigationDefaults
    /\ oracle = FewOracleActions
    /\ captchas = {}
    /\ sess = <<>>
    /\ NoValidation
    /\ NoExecution
    /\ NoTraffic
    /\ cap = NoCall
    /\ gen = [pc |-> "attempt", attempt |-> 0, responses |-> <<>>]

\* a loop that goes on after the last attempt's exception
Attempt_RetryAll ==
    /\ gen.pc = "attempt"
    /\ \E response \in ProviderResponses :
          LET ends == TurnEnds(response)
              responses == Append(gen.responses, response)
          IN gen' =
               CASE ends = "action" ->
                      [pc |-> "returned", attempt |-> gen.attempt,
                       responses |-> responses, result |-> Build(response.data)]
                 [] OTHER ->
                      [pc |-> "attempt", attempt |-> gen.attempt + 1,
                       responses |-> responses]
    /\ UNCHANGED <<one, max_steps, config, sess, validation, execution, network, cap>>

\* one turn of "for attempt in range(max_retries)"
Attempt ==
    /\ gen.pc = "attempt"
    /\ gen.attempt < max_retries
    /\ \E response \in ProviderResponses :
          LET ends == TurnEnds(response)
              responses == Append(gen.responses, response)
          IN gen' =
               CASE ends = "action" ->
                      [pc |-> "returned", attempt |-> gen.attempt,
                       responses |-> responses, result |-> Build(response.data)]
                 [] ends = "exception" /\ ~(gen.attempt < max_retries - 1) ->
                      [pc |-> "raised", attempt |-> gen.attempt,
                       responses |-> responses]
                 [] OTHER ->
                      [pc |-> "attempt", attempt |-> gen.attempt + 1,
                       responses |-> responses]
    /\ UNCHANGED <<one, max_steps, config, sess, validation, execution, network, cap>>

\* the loop is over: return None
NoneReturned ==
    /\ gen.pc = "attempt"
    /\ gen.attempt >= max_retries
    /\ gen' = [pc |-> "returned", attempt |-> gen.attempt, responses |-> gen.responses,
               result |-> NoAction]
    /\ UNCHANGED <<one, max_steps, config, sess, validation, execution, network, cap>>

NextGenerator == Attempt \/ NoneReturned

GeneratorSpec == InitGenerator /\ [][NextGenerator]_vars

\* ---------------------------------------------------------------- claims
\* the step this transition appends, when it appends one
Appends == Len(steps') = Len(steps) + 1
Appended == steps'[Len(steps')]

\* C1: every change of the status is RUNNING -> COMPLETED / FAILED / STOPPED /
\* WAITING_HUMAN or WAITING_HUMAN -> RUNNING, and COMPLETED, FAILED and STOPPED
\* never change again
C1_StatusForwardOnly ==
    [][status' # status =>
         \/ status = RUNNING /\ status' \in {COMPLETED, FAILED, STOPPED, WAITING_HUMAN}
         \/ status = WAITING_HUMAN /\ status' = RUNNING]_vars

\* C2: when run appends a step whose error contains the human-intervention phrase,
\* the session it returns is WAITING_HUMAN
C2_HumanErrorWaits ==
    [][(Appends /\ Truthy(Appended.error) /\ IsHumanIntervention(Appended.error))
         => status' = WAITING_HUMAN]_vars

\* C3: a step that ends because a detected challenge was not resolved has an error
\* tagged as requiring human intervention, and the session becomes WAITING_HUMAN
C3_UnresolvedChallengeWaits ==
    [][(Appends /\ Appended.reasoning = R_Captcha)
         => (IsHumanIntervention(Appended.error) /\ status' = WAITING_HUMAN)]_vars

\* C4: a step whose action is done is the last step of its session, and the session
\* is COMPLETED
C4_DoneIsLastOfCompleted ==
    \A i \in 1..Len(steps) :
        steps[i].action.action = "done" => (i = Len(steps) /\ status = COMPLETED)

\* C5: the i-th step has step_number i, and the step list changes only by an append
\* that leaves the steps already in it as they were
C5_Contiguous == \A i \in 1..Len(steps) : steps[i].step_number = i
C5_AppendOnly == steps' = steps \/ (Appends /\ SubSeq(steps', 1, Len(steps)) = steps)
C5_StepsAppendOnly == []C5_Contiguous /\ [][C5_AppendOnly]_vars

\* C5 witness: a step was appended after a WAITING_HUMAN pause and a continue
C5_Witness ==
    /\ Len(steps) = 2
    /\ IsHumanIntervention(steps[1].error)
    /\ steps[2].step_number = 2

\* C6: the executor is called only with an action the validator allowed; a step
\* whose action the validator denied carries the action and the validator's reason
\* as its error, and the executor was not called in it
C6_ExecutedOnlyIfAllowed ==
    [][/\ \A e \in executed' \ executed :
             validate_action(e.action, e.url, confirm_sensitive_actions).is_valid
       /\ Appends =>
             LET verdict == validate_action(Appended.action, Appended.url,
                                            confirm_sensitive_actions)
             IN  /\ (Appended.action # NoAction /\ ~verdict.is_valid) =>
                        /\ Appended.error = verdict.error
                        /\ Appended.reasoning = R_Blocked
                        /\ \A e \in executed' : e.step_number # Appended.step_number
                 /\ Appended.reasoning = R_Blocked => Appended.action # NoAction]_vars

\* C6 witness: one step's action was executed and a later step's action was denied
C6_Witness ==
    /\ Len(steps) = 2
    /\ \E e \in executed : e.step_number = 1
    /\ steps[2].reasoning = R_Blocked
    /\ steps[2].error = MSG_FileDialog

\* C7: a step whose action requires human confirmation is not executed and leaves
\* the session WAITING_HUMAN
C7_ConfirmationWaits ==
    [][(Appends /\ Appended.action # NoAction
          /\ requires_human_confirmation(Appended.action, confirm_sensitive_actions))
         => /\ status' = WAITING_HUMAN
            /\ \A e \in executed' : e.step_number # Appended.step_number]_vars

\* C8: when a step is appended whose error does not contain the human-intervention
\* marker, the session becomes FAILED and the run starts no further step
C8_ErrorFails ==
    [][(Appends /\ Appended.error # None /\ ~IsHumanIntervention(Appended.error))
         => (status' = FAILED /\ pc' \notin InStep)]_vars

\* C9: a step whose action the executor failed to execute ends the session FAILED
C9_ExecutorFailureFails ==
    [][(Appends /\ Appended.reasoning = R_Executing /\ Appended.error # None)
         => status' = FAILED]_vars

\* C10: when the deadline of a step fires, the session becomes FAILED, the loop stops
\* and no step is recorded for that iteration
C10_StepTimeoutFails ==
    [][(~timed_out /\ timed_out')
         => (status' = FAILED /\ pc' \notin InStep /\ steps' = steps)]_vars

\* run returns: the task that holds the lock leaves agent_loop.run
Returns == pc \in InRun /\ pc' = "finally"

\* C11: when run returns with the step budget or the total timeout exhausted, no done
\* step recorded last and the session not stopped, the session is FAILED; with
\* max_steps = 1 a successfully executed action that is not done is the only step, its
\* url is the starting url and the session ends FAILED
C11_ExhaustedBudgetFails ==
    [][/\ (Returns /\ (Len(steps') >= max_steps \/ expired) /\ status # STOPPED
              /\ ~(Appends /\ Appended.action.action = "done"))
          => status' = FAILED
       /\ (pc = "act" /\ max_steps = 1 /\ status = RUNNING /\ Appends
              /\ Appended.error = None /\ Appended.action.action # "done")
          => (Returns /\ Len(steps') = 1 /\ Appended.url = StartUrl
                /\ status' = FAILED)]_vars

\* C11 witness: a run with max_steps = 1 has ended FAILED with its one executed step
C11_Witness ==
    /\ pc = "finally"
    /\ task.max_steps = 1
    /\ status = FAILED
    /\ Len(steps) = 1
    /\ steps[1].error = None
    /\ steps[1].action.action = "click"
    /\ steps[1].url = StartUrl

\* C12: a step that ends because the oracle raised or returned no action has no action
\* and has an error, and the session becomes FAILED unless the error contains the
\* human-intervention marker
C12_OracleFailureFails ==
    [][(Appends /\ Appended.reasoning \in {R_LLMError, R_NoAction})
         => /\ Appended.action = NoAction
            /\ Appended.error # None
            /\ (IsHumanIntervention(Appended.error) \/ status' = FAILED)]_vars

\* most steps a session of Spec can have: every run stops at its budget
MaxLen == IF MaxSteps > ConfigMaxSteps THEN MaxSteps ELSE ConfigMaxSteps

\* C13: once the status is STOPPED with n steps recorded, the session never has more
\* than n + 1 steps: at most the step in flight at the stop is appended afterwards
C13_NoNewStepAfterStop ==
    \A n \in 0..MaxLen :
        []((status = STOPPED /\ Len(steps) = n) => [](Len(steps) <= n + 1))

\* C14: a background task creates its context, and so navigates and runs steps, only
\* when no other task of the session holds the session's lock: a task that
\* run_agent_task begins while another one holds the lock waits until it is released
C14_OneLoopPerSession ==
    [][/\ (pc' = "create_context" /\ pc # "create_context") => pc = "idle"
       /\ (pc # "idle" /\ Len(tasks') < Len(tasks)) => (~stored \/ ~lock_stored)]_vars

\* C14 witness: the task added by continue waits for the lock while the task that
\* paused the session is still in its finally block
C14_Witness ==
    /\ pc = "finally"
    /\ tasks # <<>>
    /\ tasks[1].waiting
    /\ status = RUNNING

\* C15: a session's run never records more steps than the max_steps requested for it,
\* and when it ends FAILED without an error it has recorded exactly that many
C15_OwnBudgetEnforced ==
    \A s \in DOMAIN sess :
        /\ sess[s].steps_count <= sess[s].requested
        /\ (sess[s].at = "done" /\ sess[s].status = FAILED)
              => sess[s].steps_count = sess[s].requested

\* C16: a step begins only with the status RUNNING, fewer than max_steps steps recorded
\* and the total timeout not reached; so no append takes the count above max_steps
C16_LoopGuard ==
    [][/\ (pc' = "observe" /\ pc # "observe")
             => (status' = RUNNING /\ Len(steps') < max_steps' /\ ~expired')
       /\ Appends => Len(steps') <= max_steps]_vars

\* C16 witness: the second step of a run with a budget of two has begun
C16_Witness ==
    /\ pc = "observe"
    /\ status = RUNNING
    /\ max_steps = 2
    /\ Len(steps) = 1

\* C17: every run returns, and the status it returns is COMPLETED, FAILED, STOPPED or
\* WAITING_HUMAN
C17_RunTerminates ==
    /\ [](pc \in InRun => <>(pc = "finally"))
    /\ [][Returns => status' \in {COMPLETED, FAILED, STOPPED, WAITING_HUMAN}]_vars

\* C17 witness: a run has returned FAILED after its second step
C17_Witness ==
    /\ pc = "finally"
    /\ status = FAILED
    /\ Len(steps) = 2
    /\ steps[2].reasoning = R_Executing

\* the call of validate_action has returned for a proposed action of this type
Validated(type) == validated # <<>> /\ proposed.action = type

\* only digits, 13 to 19 of them
CardShaped(v) == Len(v) \in 13..19 /\ \A i \in 1..Len(v) : IsDigit(v[i])

\* ddd-dd-dddd
SSNShaped(v) ==
    /\ Len(v) = 11
    /\ \A i \in 1..11 : IF i \in {4, 7} THEN v[i] = "-" ELSE IsDigit(v[i])

\* C18: validate_action denies a fill exactly when its value is only 13 to 19 digits
\* or has the form ddd-dd-dddd and the sensitive-confirmation policy is active; with
\* the policy inactive, and for every value of neither shape, the fill is allowed
C18_FillDeniedIffShaped ==
    Validated("fill") =>
        (~validated[1].is_valid <=>
            (confirm_sensitive_actions
                /\ (CardShaped(proposed.value) \/ SSNShaped(proposed.value))))

\* the deletion/removal-like and the payment/checkout/purchase-like words, with the
\* white space the patterns allow inside them
DeletionWords ==
    { <<"d","e","l","e","t","e">>, <<"r","e","m","o","v","e">>, <<"d","e","s","t","r","o","y">>, <<"e","r","a","s","e">>, <<"p","e","r","m","a","n","e","n","t","l","y">>,
      <<"c","l","e","a","r","a","l","l">>, <<"c","l","e","a","r"," ","a","l","l">>, <<"c","l","e","a","r"," "," ","a","l","l">> }

PaymentWords ==
    { <<"p","a","y","m","e","n","t">>, <<"c","h","e","c","k","o","u","t">>, <<"p","u","r","c","h","a","s","e">>, <<"b","u","y","n","o","w">>, <<"b","u","y"," ","n","o","w">>,
      <<"p","l","a","c","e","o","r","d","e","r">>, <<"p","l","a","c","e"," ","o","r","d","e","r">>, <<"p","l","a","c","e"," "," ","o","r","d","e","r">>, <<"c","o","n","f","i","r","m","o","r","d","e","r">>,
      <<"c","o","n","f","i","r","m"," ","o","r","d","e","r">>, <<"s","u","b","m","i","t","p","a","y","m","e","n","t">>, <<"s","u","b","m","i","t"," ","p","a","y","m","e","n","t">>, <<"p","a","y","n","o","w">>,
      <<"p","a","y"," ","n","o","w">> }

\* the selector contains one of the words, in any letter case
HasWord(words, selector) == \E w \in words : Contains(w, Lower(selector))

\* C19: with the sensitive-confirmation policy active, validate_action denies every
\* click whose selector contains, in any letter case, a deletion/removal-like or a
\* payment/checkout/purchase-like pattern
C19_SensitiveClickDenied ==
    (/\ Validated("click")
     /\ confirm_sensitive_actions
     /\ HasWord(DeletionWords \cup PaymentWords, proposed.selector))
        => ~validated[1].is_valid

C19_Witness ==
    /\ Validated("click")
    /\ confirm_sensitive_actions
    /\ ~block_file_dialogs
    /\ proposed.selector = <<"t","e","x","t","=","D","E","L","E","T","E">>
    /\ validated[1] = Denied(MSG_Deletion)

\* the upload/file/browse-like words, with the white space the patterns allow
FileWords ==
    { <<"u","p","l","o","a","d">>, <<"f","i","l","e">>, <<"a","t","t","a","c","h","m","e","n","t">>, <<"b","r","o","w","s","e">>, <<"c","h","o","o","s","e","f","i","l","e">>,
      <<"c","h","o","o","s","e"," ","f","i","l","e">> }

\* C20, as stated: validate_action denies every click whose selector matches an
\* upload/file/browse-like pattern, for every policy configuration
C20_FileClickAlwaysDenied ==
    (Validated("click") /\ HasWord(FileWords, proposed.selector))
        => ~validated[1].is_valid

\* C20, amended: with block_file_dialogs enabled, validate_action denies every click
\* whose selector matches an upload/file/browse-like pattern as a file dialog action,
\* whether or not the sensitive-confirmation policy is active; with it disabled such a
\* click is denied only for a payment or deletion pattern under the active policy
C20_FileClickDeniedWhenBlocking ==
    (Validated("click") /\ HasWord(FileWords, proposed.selector)) =>
        IF block_file_dialogs
        THEN validated[1] = Denied(MSG_FileDialog)
        ELSE ~validated[1].is_valid <=>
                (confirm_sensitive_actions
                    /\ HasWord(DeletionWords \cup PaymentWords, proposed.selector))

C20_Witness ==
    /\ Validated("click")
    /\ block_file_dialogs
    /\ ~confirm_sensitive_actions
    /\ proposed.selector = <<"i","n","p","u","t","[","t","y","p","e","=","f","i","l","e","]">>
    /\ validated[1] = Denied(MSG_FileDialog)

\* C21: validate_action allows every press, select, wait_for_selector,
\* assert_url_includes and done action, whatever its fields, the current URL and the
\* policy configuration
C21_OtherActionsAllowed ==
    (validated # <<>>
        /\ proposed.action \in {"press", "select", "wait_for_selector",
                                "assert_url_includes", "done"})
        => validated[1] = Allowed

C21_Witness ==
    /\ Validated("wait_for_selector")
    /\ proposed.timeout_ms = 60000
    /\ proposed.selector = <<"t","e","x","t","=","D","e","l","e","t","e"," ","f","i","l","e">>
    /\ confirm_sensitive_actions /\ block_file_dialogs /\ ~allow_navigation
    /\ allowed_domains # {} /\ blocked_domains # {}
    /\ validated[1] = Allowed

\* the host of a URL: its network location without user information and port, in
\* lower case
HostOf(u) ==
    LET netloc == NetLoc(u)
        ats == {i \in 1..Len(netloc) : netloc[i] = "@"}
        b == IF ats = {} THEN 1 ELSE (CHOOSE i \in ats : \A k \in ats : k <= i) + 1
        colons == {i \in b..Len(netloc) : netloc[i] = ":"}
        e == IF colons = {} THEN Len(netloc)
             ELSE (CHOOSE i \in colons : \A k \in colons : i <= k) - 1
    IN  Lower(SubSeq(netloc, b, e))

\* C22: a goto is denied exactly when cross-origin navigation is disabled and the
\* target's host differs from the current URL's host, or the allow list is not empty
\* and lacks the target's host, or the block list holds the target's host
C22_NavigationPolicy ==
    Validated("goto") =>
        LET target == HostOf(proposed.url)
            current == HostOf(page_url)
        IN  ~validated[1].is_valid <=>
                \/ ~allow_navigation /\ target # current
                \/ allowed_domains # {} /\ target \notin allowed_domains
                \/ target \in blocked_domains

\* C27: under every policy configuration an action for which
\* requires_human_confirmation is true is denied by validate_action, so _run_step
\* never takes its confirmation branch
C27_ConfirmationImpliesDenied ==
    validated # <<>> =>
        /\ requires_human_confirmation(proposed, confirm_sensitive_actions)
                => ~validated[1].is_valid
        /\ Decide(proposed, page_url, confirm_sensitive_actions) # "confirm"

C27_Witness ==
    /\ Validated("fill")
    /\ proposed.value = <<"1","2","3","-","4","5","-","6","7","8","9">>
    /\ requires_human_confirmation(proposed, confirm_sensitive_actions)
    /\ validated[1] = Denied(MSG_SSN)
    /\ Decide(proposed, page_url, confirm_sensitive_actions) = "blocked"

\* the eight variants of an action
KnownTags ==
    {"click", "fill", "goto", "press", "select", "wait_for_selector",
     "assert_url_includes", "done"}

\* C23: no exception leaves execute: whatever the action and the failure of the page,
\* the call goes on until it returns a (success, error, result_data) whose error is
\* not None when success is false, and for a tag that is none of the eight variants
\* it returns a failure whose error names the tag
C23_ReturnedTriple ==
    ex.pc = "returned" =>
        LET r == ex.result[1]
        IN  /\ r.success \in BOOLEAN
            /\ ~r.success => r.error # None
            /\ surface.primary # "ok" /\ ex.exhausted = None
                    /\ ex.action.action \in KnownTags \ {"assert_url_includes", "done", "click"}
                 => ~r.success
            /\ ex.action.action \notin KnownTags =>
                    ~r.success /\ Contains(<<ex.action.action>>, r.error)

\* how far a call is from its return: no more than the alternatives left to try
Remaining(e) ==
    CASE e.pc = "returned" -> 0
      [] e.pc = "healing" -> 1 + Len(e.alternatives) - Len(e.tried)
      [] e.pc = "start" -> 2 + Len(Candidates(e.action))
      [] OTHER -> 0

\* a call that has not returned is at a page call or in the loop over alternatives
\* that are left or used up, and each of its steps brings it closer to its return
C23_ExecuteAlwaysReturns ==
    /\ [](ex.pc \in {"none", "start", "healing", "returned"})
    /\ [](ex.pc = "healing" => Len(ex.tried) <= Len(ex.alternatives))
    /\ []C23_ReturnedTriple
    /\ [][ex.pc # "none" => Remaining(ex') < Remaining(ex)]_vars

C23_Witness ==
    /\ ex.pc = "returned"
    /\ ex.action.action = "press"
    /\ surface.primary = "error"
    /\ ex.result[1] = Returned(FALSE, <<"K","e","y"," ","p","r","e","s","s"," ","f","a","i","l","e","d",":"," ","T","a","r","g","e","t"," ","c","l","o","s","e","d">>, NoData)

\* the healing of the call has been triggered
HealingTriggered == ex.pc \in {"healing", "returned"} /\ ex.exhausted # None

\* the most alternatives a click and a fill can come to: alternatives[:3], and the
\* name, mail, password, generic and healed selectors of _get_fill_alternatives
MostAttempts(action) ==
    IF action.action = "click" THEN TopAlternatives ELSE 5 + 10 + 9 + 2 + 5 + 2

\* C24: once healing is triggered for a click or a fill, what has been tried is a
\* beginning of the list of candidates, which is a function of the selector and the
\* value only; no more than a fixed number is tried; nothing is tried after a
\* candidate that worked; and the result of a healed call is marked healed and names
\* the candidate that worked
C24_HealingOrder ==
    HealingTriggered =>
        LET tried == ex.tried
            n == Len(tried)
        IN  /\ ex.action.action \in {"click", "fill"}
            /\ n <= Len(Candidates(ex.action))
            /\ tried = SubSeq(Candidates(ex.action), 1, n)
            /\ n <= MostAttempts(ex.action)
            /\ \A k \in 1..(n - 1) : tried[k] \notin surface.good
            /\ (ex.pc = "healing" /\ n > 0) => tried[n] \notin surface.good
            /\ (ex.pc = "returned" /\ ex.result[1].success) =>
                    /\ n > 0
                    /\ tried[n] \in surface.good
                    /\ ex.result[1].result_data = Data(tried[n], TRUE)
            /\ (ex.pc = "returned" /\ ~ex.result[1].success) =>
                    \A k \in 1..n : tried[k] \notin surface.good

C24_Witness ==
    /\ ex.pc = "returned"
    /\ ex.action.action = "click"
    /\ ex.action.selector = <<"t","e","x","t","=","\"","S","a","v","e","\"">>
    /\ surface.primary = "timeout"
    /\ Len(ex.tried) = 2
    /\ Cardinality(surface.good) = 2
    /\ ex.result[1] = Returned(TRUE, None, Data(<<":","h","a","s","-","t","e","x","t","(","\"","S","a","v","e","\"",")">>, TRUE))

\* C25: when healing was attempted for a click or a fill and no candidate worked, the
\* error that is returned names the primary selector, whether a timeout or another
\* failure of the primary selector triggered the healing
C25_ExhaustedNamesSelector ==
    (HealingTriggered /\ ex.pc = "returned" /\ ~ex.result[1].success)
        => Contains(ex.action.selector, ex.result[1].error)

\* the only traffic is one POST to a URL containing /api/login, whose event was open
\* when its response of status 200 was received
LoginAnswered ==
    /\ Len(traffic) = 1
    /\ traffic[1].request.method = "POST"
    /\ Contains(<<"/","a","p","i","/","l","o","g","i","n">>, traffic[1].request.url)
    /\ traffic[1].heard_at = "opened"
    /\ traffic[1].outcome = "response"
    /\ traffic[1].status = Set(200)

\* C26: after request-started for a POST to a URL containing /api/login, followed by
\* response-received with status 200 for that request, and no other traffic,
\* get_recent_events called while the request is within the window returns exactly one
\* event, whose is_success is true and whose latency is set and at least 0
C26_LoginCorrelated ==
    (LoginAnswered /\ clock - traffic[1].timestamp <= RecentSeconds) =>
        \A api_only \in BOOLEAN, success_only \in BOOLEAN :
            LET recent == get_recent_events(events, clock, RecentSeconds,
                                            api_only, success_only)
            IN /\ Len(recent) = 1
               /\ is_success(recent[1])
               /\ recent[1].response_time_ms # Unset
               /\ recent[1].response_time_ms[1] >= 0

C26_Witness ==
    /\ LoginAnswered
    /\ clock - traffic[1].timestamp = RecentSeconds
    /\ get_recent_events(events, clock, RecentSeconds, TRUE, FALSE) =
          <<[req |-> 1, timestamp |-> clock - RecentSeconds, method |-> "POST",
             url |-> LoginUrl, resource_type |-> "xhr", status |-> Set(200),
             response_time_ms |-> Set(1000), failure |-> None]>>

\* the events a response for request r may be written to: same method and URL, no status
OpenFor(r) ==
    {i \in DOMAIN events : /\ events[i].method = traffic[r].request.method
                           /\ events[i].url = traffic[r].request.url
                           /\ events[i].status = Unset}

\* response-received is handled for request r in this step
ResponseHandled(r) ==
    /\ r \in DOMAIN traffic
    /\ traffic[r].outcome = "none"
    /\ traffic'[r].outcome = "response"

\* C28: on response-received the event updated is the most recently opened event
\* with the same (method, URL) whose status is unset; events of another key or with
\* a status are unchanged, nothing changes when there is no such event, and a
\* status, once written, is never written again
C28_ResponseUpdatesLatestOpen ==
    [][/\ \A r \in 1..MaxRequests :
            ResponseHandled(r) =>
                IF OpenFor(r) = {}
                THEN events' = events /\ _request_start_times' = _request_start_times
                ELSE LET latest == CHOOSE i \in OpenFor(r) : \A j \in OpenFor(r) : j <= i
                     IN /\ DOMAIN events' = DOMAIN events
                        /\ events'[latest].status = traffic'[r].status
                        /\ events'[latest].status # Unset
                        /\ \A j \in DOMAIN events \ {latest} : events'[j] = events[j]
       /\ \A i \in DOMAIN events :
            events[i].status # Unset =>
                i \in DOMAIN events' /\ events'[i].status = events[i].status
      ]_vars

\* two requests of one key are open, and the response to one has been written to
\* the later event
C28_Witness ==
    /\ Len(events) = 2
    /\ events[1].url = LoginUrl /\ events[2].url = LoginUrl
    /\ events[1].status = Unset
    /\ events[2].status = Set(500)
    /\ \E r \in DOMAIN traffic : traffic[r].outcome = "none"

\* C29: in every reachable state an event whose status is filled has its latency
\* filled too, with a value of at least 0, also when several requests of one
\* (method, URL) are in flight at once
C29_StatusImpliesLatency ==
    \A i \in DOMAIN events :
        events[i].status # Unset =>
            /\ events[i].response_time_ms # Unset
            /\ events[i].response_time_ms[1] >= 0

\* the event request r was opened for, if it has been opened
EventOf(r) == {i \in DOMAIN events : events[i].req = r}

\* request-failed is handled for request r in this step
FailureHandled(r) ==
    /\ r \in DOMAIN traffic
    /\ traffic[r].outcome = "none"
    /\ traffic'[r].outcome = "failed"

\* C30: a request-failed notification sets the failure reason on the event opened
\* for that same request and on no other event, also when other requests of the
\* same (method, URL) are open; and no event ever carries both a status and a
\* failure reason
C30_FailureOnOwnEvent ==
    /\ [][\A r \in 1..MaxRequests :
            FailureHandled(r) =>
                /\ DOMAIN events' = DOMAIN events
                /\ \A i \in EventOf(r) : events'[i].failure = FailureText
                /\ \A i \in DOMAIN events \ EventOf(r) : events'[i] = events[i]]_vars
    /\ [](\A i \in DOMAIN events : ~(events[i].status # Unset /\ events[i].failure # None))

\* the events and start times that are young enough to stay
YoungEvents == {i \in DOMAIN events : clock - events[i].timestamp <= max_age_seconds}
YoungStarts ==
    {k \in RequestIds : /\ _request_start_times[k] # Unset
                        /\ clock - _request_start_times[k][1] < max_age_seconds}

\* the events in their order, without the ones outside of keep
RECURSIVE Only(_, _, _)
Only(evs, keep, i) ==
    IF i > Len(evs) THEN <<>>
    ELSE (IF i \in keep THEN <<evs[i]>> ELSE <<>>) \o Only(evs, keep, i + 1)

\* a handler of the browser's callbacks runs, or time passes, in this step
CallbackOrTime == traffic' # traffic \/ clock' # clock

\* C31: clear_old_events removes exactly the events opened more than max_age ago
\* and the start times at least max_age old, keeps the rest unchanged and in order;
\* no handler and no passing of time removes an event
C31_PrunesExactlyTheOld ==
    [][IF CallbackOrTime
       THEN /\ Len(events') >= Len(events)
            /\ \A i \in DOMAIN events : events'[i].req = events[i].req
       ELSE /\ events' = Only(events, YoungEvents, 1)
            /\ \A k \in RequestIds :
                 _request_start_times'[k] =
                    IF k \in YoungStarts THEN _request_start_times[k] ELSE Unset
      ]_vars

\* the event of the first request has been pruned; the second request, opened exactly
\* max_age ago and unanswered, has kept its event and lost its start time
C31_Witness ==
    /\ Len(traffic) = 2
    /\ traffic[1].stage = "opened" /\ EventOf(1) = {}
    /\ traffic[2].stage = "opened" /\ traffic[2].outcome = "none"
    /\ clock - traffic[2].timestamp = max_age_seconds
    /\ Len(events) = 1 /\ events[1].req = 2
    /\ _request_start_times[request_id(traffic[2].request)] = Unset

\* the places of the selectors that match, of the phrases in the content
MatchingSelectors ==
    {i \in DOMAIN CAPTCHA_SELECTORS :
        CAPTCHA_SELECTORS[i] \in surface.matching \ surface.raising}
MatchingPatterns ==
    IF surface.content = RAISES THEN {}
    ELSE {i \in DOMAIN CAPTCHA_TEXT_PATTERNS :
            Contains(CAPTCHA_TEXT_PATTERNS[i], Lower(surface.content))}

\* C32: detect looks at the selector signatures in list order, then at the phrases
\* in the content, then at the interstitial heuristic; it returns the type of the
\* first that matches, and no challenge only when nothing matches
C32_FirstMatchWins ==
    cap.pc = "detected" =>
        LET r == cap.result
        IN IF MatchingSelectors # {}
           THEN LET first == CHOOSE i \in MatchingSelectors :
                                \A j \in MatchingSelectors : i <= j
                IN /\ r.has_captcha
                   /\ r.by = CAPTCHA_SELECTORS[first]
                   /\ r.captcha_type = _identify_captcha_type(CAPTCHA_SELECTORS[first])
           ELSE IF MatchingPatterns # {}
           THEN r.has_captcha /\ r.captcha_type = "generic"
           ELSE IF _check_cloudflare_challenge(surface)
           THEN r.has_captcha /\ r.captcha_type = "cloudflare"
           ELSE ~r.has_captcha

\* a hCaptcha frame and a challenge phrase on an interstitial: the frame wins
C32_Witness ==
    /\ cap.pc = "detected"
    /\ surface.matching = {CAPTCHA_SELECTORS[1], CAPTCHA_SELECTORS[5]}
    /\ surface.raising = {CAPTCHA_SELECTORS[1]}
    /\ MatchingPatterns # {}
    /\ _check_cloudflare_challenge(surface)
    /\ cap.result = Detected("hcaptcha", CAPTCHA_SELECTORS[5])

\* the completed clicks among the calls a handler made
RECURSIVE Clicks(_)
Clicks(made) ==
    IF made = <<>> THEN 0
    ELSE (IF Head(made) = "click" THEN 1 ELSE 0) + Clicks(Tail(made))

\* a checkbox handler has returned
CheckboxHandled == cap.pc = "returned" /\ surface.kind \in {"recaptcha", "hcaptcha"}

\* the checkbox of the provider's frame is there and the click on it returns
Clicked(frame) == frame.recaptcha /\ frame.checkbox = "present" /\ frame.click = "ok"

\* the re-check after the click has found the image challenge
ImageFound ==
    \/ surface.kind = "hcaptcha" /\ surface.main.image = "yes"
          /\ surface.main.checkbox = "present" /\ surface.main.click = "ok"
    \/ surface.kind = "recaptcha"
          /\ \E i \in DOMAIN surface.frames :
                /\ Clicked(surface.frames[i]) /\ surface.frames[i].image = "yes"
                /\ \A j \in 1..(i - 1) :
                      ~(Clicked(surface.frames[j]) /\ surface.frames[j].image = "no")

\* C33: for a challenge with a checkbox the handler clicks the checkbox at most once
\* in a resolution cycle, and when the re-check after the click finds an image
\* challenge it returns failure, with a reason that holds the human-intervention
\* phrase, and makes no further call of the challenge
C33_OneClickThenEscalate ==
    CheckboxHandled =>
        LET r == cap.result
        IN /\ Clicks(r.made) <= 1
           /\ ImageFound =>
                /\ ~r.success
                /\ IsHumanIntervention(r.error)
                /\ r.made[Len(r.made)] = "recheck"

\* the turns of the loop a call of _handle_cloudflare can still take
PollsLeft(c) ==
    CASE c.pc = "returned" -> 0
      [] c.pc = "polling" -> 1 + (IF c.elapsed < max_wait THEN max_wait - c.elapsed ELSE 0)
      [] OTHER -> max_wait + 2

\* C34: handling an interstitial always ends: every turn of the loop brings the end
\* nearer and at most max_wait turns are taken; the call returns success at the
\* poll that finds the challenge gone, and failure when the budget is used up (or a
\* call of the page raises)
C34_PollingEnds ==
    /\ [](surface.kind = "cloudflare" =>
            /\ cap.pc \in {"handle", "polling", "returned"}
            /\ cap.pc = "polling" => cap.polls <= cap.elapsed
            /\ cap.pc # "handle" => cap.polls <= max_wait
            /\ cap.pc = "returned" =>
                 /\ cap.result.success <=> cap.last = "gone"
                 /\ cap.last = "challenge" =>
                       /\ cap.elapsed >= max_wait
                       /\ cap.result.error = MSG_CloudflareTimeout
                 /\ cap.last = "raises" => cap.result.error = surface.exc)
    /\ [][surface.kind = "cloudflare" =>
            /\ PollsLeft(cap') < PollsLeft(cap)
            /\ (cap.pc = "polling" /\ cap'.pc = "returned" /\ cap'.result.success)
                  => cap.elapsed < max_wait]_vars

\* the budget has been used up, one second at a time
C34_Witness ==
    /\ surface.kind = "cloudflare"
    /\ cap.pc = "returned"
    /\ cap.polls = max_wait
    /\ cap.result = Handled(FALSE, MSG_CloudflareTimeout, <<>>)

\* a response that is an action of one of the eight variants, valid by its schema
ValidResponse(response) ==
    /\ response.kind = "object"
    /\ "action" \in DOMAIN response.data
    /\ response.data.action \in ActionTypes
    /\ Accepts(response.data)

\* the turns a call of generate_action can still take
AttemptsLeft(g) ==
    CASE g.pc = "attempt" -> 1 + max_retries - g.attempt
      [] OTHER -> 0

\* C35: for one step generate_action calls the provider at most max_retries times;
\* it returns the action of the first response that is a valid action of one of the
\* eight variants; after the last failed attempt it returns no action or raises; it
\* never returns an action outside of the eight variants, and every turn brings the
\* end nearer
C35_BoundedRetries ==
    /\ [](/\ gen.pc \in {"attempt", "returned", "raised"}
          /\ Len(gen.responses) <= max_retries
          /\ \A i \in 1..(Len(gen.responses) - 1) : ~ValidResponse(gen.responses[i])
          /\ (gen.pc = "attempt" /\ gen.responses # <<>>) =>
                ~ValidResponse(gen.responses[Len(gen.responses)])
          /\ gen.pc = "returned" =>
                IF gen.result = NoAction
                THEN /\ Len(gen.responses) = max_retries
                     /\ ~ValidResponse(gen.responses[max_retries])
                ELSE /\ gen.result.action \in ActionTypes
                     /\ ValidResponse(gen.responses[Len(gen.responses)])
                     /\ gen.result.action = gen.responses[Len(gen.responses)].data.action
          /\ gen.pc = "raised" =>
                /\ Len(gen.responses) = max_retries
                /\ ~ValidResponse(gen.responses[max_retries]))
    /\ [][AttemptsLeft(gen') < AttemptsLeft(gen)]_vars

\* two failures, then a wait without a timeout: the action with the default
C35_Witness ==
    /\ gen.pc = "returned"
    /\ Len(gen.responses) = max_retries
    /\ gen.responses[1].kind = "text"
    /\ gen.responses[2].kind = "object" /\ ActionTypeOf(gen.responses[2].data) = "hover"
    /\ gen.result = [action |-> "wait_for_selector", selector |-> <<"#","w">>,
                     timeout_ms |-> 10000]

\* no handler is suspended and every request has been answered or has failed
Quiet ==
    \A r \in DOMAIN traffic : traffic[r].stage = "opened" /\ traffic[r].outcome # "none"

\* C36: under any interleaving of the callbacks, every recorded request whose
\* response-received has fired ends with the status of its event set: once nothing
\* is in flight, no event of an answered request is open
C36_NoResponseDropped ==
    Quiet =>
        \A r \in DOMAIN traffic :
            traffic[r].outcome = "response" =>
                \A i \in EventOf(r) : events[i].status # Unset

\* the task continue_agent added holds the lock: it asked for no budget of its own
Resumed == pc # "idle" /\ task.max_steps = 0

\* C37: a session that waits for a human keeps its browser context, and the task
\* that continue_agent starts finds that context open instead of creating a fresh
\* one for the navigation to the start URL
C37_WaitingKeepsContext ==
    [][/\ (stored' /\ status' = WAITING_HUMAN) => ctx'
       /\ (Resumed /\ pc = "create_context" /\ pc' = "get_page") => ctx]_vars

\* C38: the session never records more steps than the max_steps its POST /run asked
\* for, whether before or after a pause for a human and a continue
C38_RequestedBudgetBoundsSteps == Len(steps) <= request_max_steps

\* C39: when a step is appended and the run starts another step, the appended step's
\* action was executed and the executor reported success; a step without an action or
\* with a failed execution ends the loop whatever its error message is
C39_NextStepOnlyAfterSuccess ==
    [][(Appends /\ pc' \in InStep)
         => /\ Appended.action # NoAction
            /\ Appended.reasoning = R_Executing
            /\ Appended.error = None]_vars

\* the challenge the detector reported in this step is not resolved: the handler is
\* still at it, or it is not called at all
Unresolved == task.has_captcha /\ (pc = "handle" \/ ~vision_enabled)

\* C40: in a step whose challenge is not resolved, with or without vision, the step
\* reaches neither the call of the oracle nor the call of the executor
C40_UnresolvedChallengeEndsStep == Unresolved => pc \notin {"reason", "act"}

====
